---- MODULE Spec2Model ----
(***************************************************************************)
(* Model of the scheduling and orchestration pipeline:                     *)
(*   - PostScheduler (src/agents/scheduler/post_scheduler.py): the pure    *)
(*     computation of publish times from the weekly slot table;            *)
(*   - Orchestrator (src/orchestrator.py): trend scan, content creation    *)
(*     and the scheduling of pooled content.                               *)
(*                                                                         *)
(* A datetime is an integer number of seconds since Monday 00:00:00 of     *)
(* week 0 (weekday 0 = Monday, as datetime.weekday()).  The sub-second     *)
(* part of a datetime is folded into the seconds: replace(second=0,        *)
(* microsecond=0) clears both at once.                                     *)
(***************************************************************************)
EXTENDS Integers, Sequences, FiniteSets, TLC

VARIABLES
    \* ---- PostScheduler ----
    optimal_times,      \* self.optimal_times: platform -> set of <<day, hour, minute>>
    call,               \* the PostScheduler call last made, with its arguments
    ret_time,           \* result of get_optimal_time
    ret_schedule,       \* result of get_bulk_schedule (a list of datetimes)
    ret_multi,          \* result of get_multi_platform_schedule (a dict platform -> datetime)
    \* ---- Orchestrator ----
    human_review,       \* self.human_review
    now,                \* datetime.now()
    ticks,              \* how often the clock has advanced
    last_trend_scan,    \* self.last_trend_scan (None or a datetime)
    last_content_creation, \* self.last_content_creation (None or a datetime)
    trend_report,       \* whether data/trend_report.json exists
    pool_file,          \* data/content_pool.json: platform -> list of items
    next_id,            \* the next fresh content id
    pc,                 \* where the running handler stands ("idle": none is running)
    content_pool,       \* schedule_posts: the pool as loaded, being updated in memory
    platform_idx,       \* schedule_posts: index of the platform being processed
    item_idx,           \* schedule_posts: i of the loop over posts_to_schedule
    unused_content,     \* schedule_posts: positions of the platform's unused items
    posting_times,      \* schedule_posts: the bulk schedule of the platform
    scheduled_posts,    \* the post log of SchedulerAgent: the posts schedule_post accepted
    cyc,                \* what the handler running (or run last) has done so far
    hist,               \* gate rejections of the last schedule_posts run and of the one before
    \* ---- process restarts ----
    restarts,           \* how often a new Orchestrator was constructed over the data directory
    at_restart,         \* last_trend_scan and last_content_creation of the process replaced last
    \* ---- start(), stop() and the background worker ----
    running,            \* self.running
    jobs,               \* the jobs registered with the schedule module, by kind
    scheduler_thread,   \* self.scheduler_thread: the index of a thread, or 0 for None
    threads,            \* the threads start() has created: where each one stands
    caller,             \* where the thread calling start() and stop() stands
    calls,              \* how many start() and stop() calls were made
    job_runs,           \* how many jobs the workers have begun
    last_call,          \* what the last start() or stop() call found and did
    \* ---- SchedulerAgent: the posts and their publishing ----
    dry_run,            \* self.dry_run, handed to the SchedulerAgent
    post_log,           \* post id -> status and attempt_count of the ScheduledPost
    publish_calls,      \* how many calls of PlatformPublisher.publish were made
    \* ---- TrendScannerAgent ----
    clock,              \* datetime.now() of the trend scanner, in seconds
    trends_cache,       \* cache/trends_cache.pkl: missing, corrupt or holding a cache object
    last_scan,          \* what the last scan_all_platforms call did and returned
    \* ---- TwitterScanner._calculate_relevance ----
    rel_call,           \* the call: relevant_topics and trend_name
    rel_ret,            \* its result, in tenths
    \* ---- content pool file: save and load ----
    rt_call,            \* the pool handed to _save_content_pool, and what the write does
    rt_file,            \* data/content_pool.json: the tokens of the text in the file
    rt_loaded,          \* what _load_content_pool returned
    \* ---- TextGenerator.generate_text ----
    tg                  \* one call of generate_text: its inputs and how far it has come

plannerVars == <<optimal_times, call, ret_time, ret_schedule, ret_multi>>

orchVars ==
    <<human_review, now, ticks, last_trend_scan, last_content_creation, trend_report,
      pool_file, next_id, pc, content_pool, platform_idx, item_idx, unused_content,
      posting_times, scheduled_posts, cyc, hist>>

restartVars == <<restarts, at_restart>>

\* the variables of the parts that the PostScheduler and the Orchestrator's cycle
\* handlers leave alone
runnerVars ==
    <<running, jobs, scheduler_thread, threads, caller, calls, job_runs, last_call>>

dispatchVars == <<dry_run, post_log, publish_calls>>

scannerVars == <<clock, trends_cache, last_scan>>

relVars == <<rel_call, rel_ret>>

rtVars == <<rt_call, rt_file, rt_loaded>>

tgVars == <<tg>>

extVars == <<restartVars, runnerVars, dispatchVars, scannerVars, relVars, rtVars, tgVars>>

\* everything but one part
exceptRestart ==
    <<plannerVars, runnerVars, dispatchVars, scannerVars, relVars, rtVars, tgVars>>
exceptRunner ==
    <<plannerVars, orchVars, restartVars, dispatchVars, scannerVars, relVars, rtVars, tgVars>>
exceptDispatch ==
    <<plannerVars, orchVars, restartVars, runnerVars, scannerVars, relVars, rtVars, tgVars>>
exceptScanner ==
    <<plannerVars, orchVars, restartVars, runnerVars, dispatchVars, relVars, rtVars, tgVars>>
exceptRel ==
    <<plannerVars, orchVars, restartVars, runnerVars, dispatchVars, scannerVars, rtVars,
      tgVars>>
exceptRt ==
    <<plannerVars, orchVars, restartVars, runnerVars, dispatchVars, scannerVars, relVars,
      tgVars>>
exceptTg ==
    <<plannerVars, orchVars, restartVars, runnerVars, dispatchVars, scannerVars, relVars,
      rtVars>>

vars == <<plannerVars, orchVars, extVars>>

----------------------------------------------------------------------------
(* datetime arithmetic *)

Minute == 60
Hour == 60 * Minute
Day == 24 * Hour

Weekday(t) == (t \div Day) % 7
HourOf(t) == (t % Day) \div Hour
MinuteOf(t) == (t % Hour) \div Minute
SecondOf(t) == t % Minute

\* datetime.replace(hour=h, minute=m, second=0, microsecond=0)
ReplaceTime(t, h, m) == (t \div Day) * Day + h * Hour + m * Minute

\* datetime.replace(second=0, microsecond=0)
ReplaceSeconds(t) == t - (t % Minute)

At(day, h, m, s) == day * Day + h * Hour + m * Minute + s

----------------------------------------------------------------------------
(* PostScheduler.__init__: the slot table *)

TwitterTimes ==
    {<<d, 9, 0>> : d \in 0..4} \cup {<<d, 12, 0>> : d \in 0..4}
        \cup {<<d, 17, 0>> : d \in 0..4} \cup {<<5, 11, 0>>, <<6, 11, 0>>}

InstagramTimes ==
    {<<d, 10, 30>> : d \in 0..4} \cup {<<d, 18, 0>> : d \in 0..4}
        \cup {<<5, 11, 0>>, <<5, 19, 0>>, <<6, 11, 0>>, <<6, 19, 0>>}

LinkedinTimes ==
    {<<1, 10, 0>>, <<1, 14, 0>>, <<2, 10, 0>>, <<2, 14, 0>>,
     <<3, 10, 0>>, <<3, 14, 0>>, <<0, 11, 0>>, <<4, 11, 0>>}

DefaultOptimalTimes ==
    [twitter |-> TwitterTimes, instagram |-> InstagramTimes, linkedin |-> LinkedinTimes]

\* str.lower() on the platform names used here
Lower(platform) ==
    CASE platform = "Twitter" -> "twitter"
      [] platform = "LinkedIn" -> "linkedin"
      [] OTHER -> platform

\* lines 114-117: unknown platforms use the twitter table
ResolvePlatform_Instagram(ot, platform) ==
    IF Lower(platform) \in DOMAIN ot THEN Lower(platform) ELSE "instagram"

ResolvePlatform(ot, platform) ==
    IF Lower(platform) \in DOMAIN ot THEN Lower(platform) ELSE "twitter"

----------------------------------------------------------------------------
(* PostScheduler.get_optimal_time *)

\* line 149: a slot of today counts only when later than from_time's hour:minute
IsFutureTime_NotStrict(hm, from_time) ==
    hm[1] > HourOf(from_time)
        \/ (hm[1] = HourOf(from_time) /\ hm[2] >= MinuteOf(from_time))

IsFutureTime(hm, from_time) ==
    hm[1] > HourOf(from_time)
        \/ (hm[1] = HourOf(from_time) /\ hm[2] > MinuteOf(from_time))

\* lines 131-152: the (hour, minute) pairs usable on day_offset
DayTimes(platform_times, from_time, day_offset) ==
    LET target_day == (Weekday(from_time) + day_offset) % 7
        day_times == {<<s[2], s[3]>> : s \in {x \in platform_times : x[1] = target_day}}
    IN  IF day_offset = 0
        THEN {hm \in day_times : IsFutureTime(hm, from_time)}
        ELSE day_times

\* day_times.sort(); day_times[0]
FirstSorted_Last(day_times) ==
    CHOOSE a \in day_times :
        \A b \in day_times : a[1] > b[1] \/ (a[1] = b[1] /\ a[2] >= b[2])

FirstSorted(day_times) ==
    CHOOSE a \in day_times :
        \A b \in day_times : a[1] < b[1] \/ (a[1] = b[1] /\ a[2] <= b[2])

\* line 130: for day_offset in range(max_days_ahead)
DayOffsets_OneShort(max_days_ahead) == 0 .. (max_days_ahead - 2)

DayOffsets(max_days_ahead) == 0 .. (max_days_ahead - 1)

\* lines 174-175: tomorrow, same time of day
DefaultTime_KeepSeconds(from_time) == from_time + Day

DefaultTime(from_time) == ReplaceSeconds(from_time + Day)

GetOptimalTime(ot, platform, from_time, max_days_ahead) ==
    LET platform_times == ot[ResolvePlatform(ot, platform)]
        hits == {d \in DayOffsets(max_days_ahead) :
                    DayTimes(platform_times, from_time, d) # {}}
    IN  IF hits = {}
        THEN DefaultTime(from_time)
        ELSE LET day_offset == CHOOSE d \in hits : \A e \in hits : d <= e
                 hm == FirstSorted(DayTimes(platform_times, from_time, day_offset))
             IN  ReplaceTime(from_time + day_offset * Day, hm[1], hm[2])

\* line 101: max_days_ahead: int = 7
DefaultMaxDaysAhead == 7

----------------------------------------------------------------------------
(* PostScheduler.get_bulk_schedule *)

\* line 216: the pick is too close to the previous one
TooClose_Never(schedule, next_time, min_hours_between) == FALSE

TooClose(schedule, next_time, min_hours_between) ==
    /\ schedule # <<>>
    /\ next_time - schedule[Len(schedule)] < min_hours_between * Hour

RECURSIVE BulkLoop(_, _, _, _, _, _)
BulkLoop(ot, platform, n, current_time, min_hours_between, schedule) ==
    IF n <= 0
    THEN schedule
    ELSE LET picked == GetOptimalTime(ot, platform, current_time, DefaultMaxDaysAhead)
             next_time == IF TooClose(schedule, picked, min_hours_between)
                          THEN schedule[Len(schedule)] + min_hours_between * Hour
                          ELSE picked
         IN  BulkLoop(ot, platform, n - 1, next_time + Minute, min_hours_between,
                      Append(schedule, next_time))

GetBulkSchedule(ot, platform, count, from_time, min_hours_between) ==
    BulkLoop(ot, platform, count, from_time, min_hours_between, <<>>)

----------------------------------------------------------------------------
(* PostScheduler.get_multi_platform_schedule *)

Max(a, b) == IF a >= b THEN a ELSE b

\* lines 258-261: the cursor for the next platform
NextCursor_NoMax(current_time, next_time, stagger_minutes) ==
    current_time + stagger_minutes * Minute

NextCursor(current_time, next_time, stagger_minutes) ==
    Max(current_time + stagger_minutes * Minute, next_time + stagger_minutes * Minute)

RECURSIVE MultiLoop(_, _, _, _, _, _)
MultiLoop(ot, platforms, i, current_time, stagger_minutes, schedule) ==
    IF i > Len(platforms)
    THEN schedule
    ELSE LET next_time == GetOptimalTime(ot, platforms[i], current_time, DefaultMaxDaysAhead)
         IN  MultiLoop(ot, platforms, i + 1,
                       NextCursor(current_time, next_time, stagger_minutes),
                       stagger_minutes,
                       (platforms[i] :> next_time) @@ schedule)

GetMultiPlatformSchedule(ot, platforms, from_time, stagger_minutes) ==
    MultiLoop(ot, platforms, 1, from_time, stagger_minutes, <<>>)

----------------------------------------------------------------------------
(* Inputs of the PostScheduler calls *)

MaxDaysAhead == 8       \* max_days_ahead ranges over 0..MaxDaysAhead
MaxCount == 3           \* count ranges over 0..MaxCount
MaxWeekday == 6         \* from_time's day ranges over 0..MaxWeekday

PlatformNames == {"twitter", "instagram", "linkedin", "Twitter", "tiktok"}

FromHours == {8, 9, 10, 17, 23}
FromMinutes == {0, 59}
FromSeconds == {0, 30}

FromTimes ==
    {At(d, h, m, s) : d \in 0..MaxWeekday, h \in FromHours, m \in FromMinutes, s \in FromSeconds}

GapChoices == {0, 3, 8, 24}
StaggerChoices == {0, 15, 120}

PlatformLists ==
    {<<"twitter", "instagram">>, <<"instagram", "twitter">>,
     <<"twitter", "instagram", "linkedin">>, <<"linkedin", "tiktok", "instagram">>,
     <<"Twitter", "twitter">>, <<"linkedin">>, <<>>}

\* the slot tables a PostScheduler is run with: the one of __init__, and the twitter
\* table reduced to Monday 09:00, and to Monday 09:00 and Tuesday 09:00
MondayOnly == [DefaultOptimalTimes EXCEPT !.twitter = {<<0, 9, 0>>}]
MondayTuesday == [DefaultOptimalTimes EXCEPT !.twitter = {<<0, 9, 0>>, <<1, 9, 0>>}]
Templates == {DefaultOptimalTimes, MondayOnly, MondayTuesday}

NoCall ==
    [op |-> "none", returned |-> FALSE, platform |-> "", platforms |-> <<>>,
     from_time |-> 0, max_days_ahead |-> 0, count |-> 0, min_hours_between |-> 0,
     stagger_minutes |-> 0]

OptimalTimeCalls ==
    {[NoCall EXCEPT !.op = "get_optimal_time", !.platform = platform,
                    !.from_time = from_time, !.max_days_ahead = max_days_ahead] :
        platform \in PlatformNames, from_time \in FromTimes,
        max_days_ahead \in 0..MaxDaysAhead}

BulkScheduleCalls ==
    {[NoCall EXCEPT !.op = "get_bulk_schedule", !.platform = platform,
                    !.from_time = from_time, !.count = c[1], !.min_hours_between = c[2]] :
        platform \in PlatformNames, from_time \in FromTimes,
        c \in (0..MaxCount) \X GapChoices}

MultiPlatformCalls ==
    {[NoCall EXCEPT !.op = "get_multi_platform_schedule", !.platforms = platforms,
                    !.from_time = from_time, !.stagger_minutes = stagger_minutes] :
        platforms \in PlatformLists, from_time \in FromTimes,
        stagger_minutes \in StaggerChoices}

\* a PostScheduler with its slot table, and one call about to be made on it
PlannerInit ==
    /\ optimal_times \in Templates
    /\ call \in OptimalTimeCalls \cup BulkScheduleCalls \cup MultiPlatformCalls
    /\ ret_time = 0
    /\ ret_schedule = <<>>
    /\ ret_multi = <<>>

CallGetOptimalTime ==
    /\ call.op = "get_optimal_time" /\ ~call.returned
    /\ ret_time' = GetOptimalTime(optimal_times, call.platform, call.from_time,
                                  call.max_days_ahead)
    /\ call' = [call EXCEPT !.returned = TRUE]
    /\ UNCHANGED <<optimal_times, ret_schedule, ret_multi>>
    /\ UNCHANGED <<orchVars, extVars>>

CallGetBulkSchedule ==
    /\ call.op = "get_bulk_schedule" /\ ~call.returned
    /\ ret_schedule' = GetBulkSchedule(optimal_times, call.platform, call.count,
                                       call.from_time, call.min_hours_between)
    /\ call' = [call EXCEPT !.returned = TRUE]
    /\ UNCHANGED <<optimal_times, ret_time, ret_multi>>
    /\ UNCHANGED <<orchVars, extVars>>

CallGetMultiPlatformSchedule ==
    /\ call.op = "get_multi_platform_schedule" /\ ~call.returned
    /\ ret_multi' = GetMultiPlatformSchedule(optimal_times, call.platforms,
                                             call.from_time, call.stagger_minutes)
    /\ call' = [call EXCEPT !.returned = TRUE]
    /\ UNCHANGED <<optimal_times, ret_time, ret_schedule>>
    /\ UNCHANGED <<orchVars, extVars>>

PlannerNext ==
    \/ CallGetOptimalTime
    \/ CallGetBulkSchedule
    \/ CallGetMultiPlatformSchedule


----------------------------------------------------------------------------
(* Orchestrator: configuration (src/orchestrator.py, __init__) *)

None == 0 - 1

self_platforms == <<"twitter", "linkedin">>
PlatformSet == {self_platforms[i] : i \in 1 .. Len(self_platforms)}

trend_scan_interval == 4
content_creation_interval == 24

\* lines 101-106 and line 333: self.max_posts_per_day.get(platform, 1)
MaxPostsPerDay(platform) ==
    CASE platform = "twitter" -> 5
      [] platform = "instagram" -> 2
      [] platform = "linkedin" -> 1
      [] OTHER -> 1

\* line 343: from_time = now + 15 minutes; line 344: min_hours_between = 3
StartDelayMinutes == 15
MinHoursBetween == 3

MaxItems == 2           \* at most MaxItems content items are ever generated
MaxTicks == 1           \* the clock advances at most MaxTicks times
StartTime == At(0, 7, 50, 20)
\* 5 hours: the trend scan is due again; 25 hours: content creation is due as well
TickSteps == {5 * Hour, 25 * Hour}

\* _init_content_pool: an empty list per platform
EmptyPool == [p \in PlatformSet |-> <<>>]

AllItems(pool) == {pool[p][i] : <<p, i>> \in {x \in PlatformSet \X (1..MaxItems + 1) : x[2] <= Len(pool[x[1]])}}

\* [c for c in content_pool[platform] if not c.get('used', False)], as positions
UnusedContent(list) ==
    LET NotUsed(i) == ~list[i].used
    IN  SelectSeq([i \in 1 .. Len(list) |-> i], NotUsed)

UnusedIds(pool) == {it.id : it \in {x \in AllItems(pool) : ~x.used}}

----------------------------------------------------------------------------
(* What a handler run has done (history, not program state) *)

NewCyc(op, within) ==
    [op |-> op,                 \* the public method invoked
     within |-> within,         \* both interval windows were still open at the invocation
     scans |-> 0,               \* calls of trend_scanner.scan_trends
     scan_failed |-> FALSE,     \* scan_trends returned False
     generated |-> {},          \* platforms generate_for_platform was called for
     added |-> FALSE,           \* an item was appended to the pool
     loaded |-> FALSE,          \* schedule_posts has loaded the pool
     forced |-> FALSE,          \* schedule_posts called create_content
     empty_at_load |-> {},      \* platforms without unused item in the loaded pool
     skipped |-> {},            \* platforms skipped with "No unused content available"
     called |-> {},             \* ids passed to scheduler.schedule_post
     recalled |-> {},           \* ids passed to schedule_post after it had accepted them
     remarked |-> {},           \* ids marked used after they had been marked used before
     gen_failed |-> {},         \* platforms generate_for_platform gave nothing for (or raised)
     visited |-> {},            \* platforms the loop of schedule_posts has come to
     sched_failed |-> {},       \* platforms schedule_post failed or raised for
     gated |-> {},              \* ids _request_human_approval was called for
     gate_true |-> {},          \* ids _request_human_approval returned True for
     gate_raised |-> FALSE,     \* an error was raised inside the gate last called
     saved |-> FALSE,           \* schedule_posts has come to its _save_content_pool call
     returned |-> "running"]    \* "running", or the handler's result: "true", "false", "none"

WithinWindow(last, interval) == last # None /\ now - last <= interval * Hour

BothWindowsOpen ==
    /\ WithinWindow(last_trend_scan, trend_scan_interval)
    /\ WithinWindow(last_content_creation, content_creation_interval)

Succeeded == {r.id : r \in scheduled_posts}

----------------------------------------------------------------------------
(* The fields scan_trends and create_content work on, as one record *)

Orch ==
    [trend_report |-> trend_report, last_trend_scan |-> last_trend_scan,
     last_content_creation |-> last_content_creation, pool_file |-> pool_file,
     next_id |-> next_id, cyc |-> cyc]

SetOrch(o) ==
    /\ trend_report' = o.trend_report
    /\ last_trend_scan' = o.last_trend_scan
    /\ last_content_creation' = o.last_content_creation
    /\ pool_file' = o.pool_file
    /\ next_id' = o.next_id
    /\ cyc' = o.cyc

\* scan_trends (lines 209-232): ok says whether fetching and writing the report worked
ScanTrendsOp_StampsFirst(o, ok) ==
    IF ok
    THEN [o EXCEPT !.trend_report = TRUE, !.last_trend_scan = now, !.cyc.scans = @ + 1]
    ELSE [o EXCEPT !.last_trend_scan = now, !.cyc.scans = @ + 1, !.cyc.scan_failed = TRUE]

ScanTrendsOp(o, ok) ==
    IF ok
    THEN [o EXCEPT !.trend_report = TRUE, !.last_trend_scan = now, !.cyc.scans = @ + 1]
    ELSE [o EXCEPT !.cyc.scans = @ + 1, !.cyc.scan_failed = TRUE]

\* _load_content_pool (lines 192-199): the pool in the file, or an empty list per
\* platform when the file cannot be read
LoadedPool(file, readable) == IF readable THEN file ELSE EmptyPool

\* _save_content_pool (lines 201-207): a failed write is logged and the file stays
SaveContentPool(file, pool, ok) == IF ok THEN pool ELSE file

\* lines 258-281: gen[platform] is what generate_for_platform gives: "content", or
\* "failed" (a falsy result, or an error raised and caught per platform: both are
\* logged and leave the pool as it is)
RECURSIVE GenerateLoop(_, _, _, _, _)
GenerateLoop(i, pool, id, added, gen) ==
    IF i > Len(self_platforms)
    THEN [pool |-> pool, next_id |-> id, added |-> added]
    ELSE LET platform == self_platforms[i]
         IN  IF gen[platform] = "content"
             THEN GenerateLoop(i + 1,
                      [pool EXCEPT ![platform] =
                          Append(@, [id |-> id, platform |-> platform, used |-> FALSE,
                                     scheduled_time |-> None])],
                      id + 1, added \cup {id}, gen)
             ELSE GenerateLoop(i + 1, pool, id, added, gen)

\* create_content (lines 234-292); the result is [ok, o]
CreateContentOp(o, gen, scan_ok, save_ok, readable) ==
    LET o1 == IF o.trend_report THEN o ELSE ScanTrendsOp(o, scan_ok)
    IN  IF ~o1.trend_report
        THEN [ok |-> FALSE, o |-> o1]
        ELSE LET g == GenerateLoop(1, LoadedPool(o1.pool_file, readable), o1.next_id, {}, gen)
             IN  [ok |-> TRUE,
                  o |-> [o1 EXCEPT
                           !.pool_file = SaveContentPool(@, g.pool, save_ok),
                           !.next_id = g.next_id,
                           !.last_content_creation = now,
                           !.cyc.generated = @ \cup PlatformSet,
                           !.cyc.gen_failed = @ \cup {p \in PlatformSet : gen[p] = "failed"},
                           !.cyc.added = @ \/ g.added # {}]]

GenOutcomes == {"content", "failed"}

\* the generation outcomes that stay within MaxItems
GenChoices(o) ==
    {gen \in [PlatformSet -> GenOutcomes] :
        o.next_id - 1 + Cardinality({p \in PlatformSet : gen[p] = "content"}) <= MaxItems}

ScanChoices(needed) == IF needed THEN BOOLEAN ELSE {TRUE}

----------------------------------------------------------------------------
(* Orchestrator: the handlers *)

\* rejected: the ids the approval gate returned false for in the last schedule_posts
\* run; prev_rejected: the same of the run before; reoffered: at the load of the last
\* run, the ids of prev_rejected were all among the unused items
NoHist == [rejected |-> {}, prev_rejected |-> {}, reoffered |-> TRUE]

OrchInit ==
    /\ human_review \in BOOLEAN
    /\ now = StartTime
    /\ ticks = 0
    /\ last_trend_scan = None
    /\ last_content_creation = None
    /\ trend_report = FALSE
    /\ pool_file = EmptyPool
    /\ next_id = 1
    /\ pc = "idle"
    /\ content_pool = EmptyPool
    /\ platform_idx = 0
    /\ item_idx = 0
    /\ unused_content = <<>>
    /\ posting_times = <<>>
    /\ scheduled_posts = {}
    /\ cyc = NewCyc("none", FALSE)
    /\ hist = NoHist

PlannerIdle ==
    /\ optimal_times = DefaultOptimalTimes
    /\ call = NoCall
    /\ ret_time = 0
    /\ ret_schedule = <<>>
    /\ ret_multi = <<>>

schedVars == <<content_pool, platform_idx, item_idx, unused_content, posting_times>>

\* the clock advances between handler runs (the record of the last run is dropped)
Tick ==
    /\ pc = "idle"
    /\ ticks < MaxTicks
    /\ \E step \in TickSteps : now' = now + step
    /\ ticks' = ticks + 1
    /\ cyc' = IF cyc.op = "restart" THEN cyc ELSE NewCyc("none", FALSE)
    /\ UNCHANGED <<human_review, last_trend_scan, last_content_creation, trend_report,
                   pool_file, next_id, pc, schedVars, scheduled_posts, hist>>
    /\ UNCHANGED <<plannerVars, extVars>>

\* scan_trends, run as the job of a trend-scan trigger (line 471)
ScanTrends ==
    /\ pc = "idle"
    /\ \E ok \in BOOLEAN :
          LET o == ScanTrendsOp([Orch EXCEPT !.cyc = NewCyc("scan_trends", BothWindowsOpen)], ok)
          IN  SetOrch([o EXCEPT !.cyc.returned = IF ok THEN "true" ELSE "false"])
    /\ UNCHANGED <<human_review, now, ticks, pc, schedVars, scheduled_posts, hist>>
    /\ UNCHANGED <<plannerVars, extVars>>

\* lines 428-429 and 437-438: the refresh is due
IsDue_Always(last, interval) == TRUE

IsDue(last, interval) == last = None \/ now - last > interval * Hour

\* lines 307-313: some platform has unused content
HasContent_EveryPlatform(pool) ==
    \A i \in 1 .. Len(self_platforms) : UnusedContent(pool[self_platforms[i]]) # <<>>

HasContent(pool) ==
    \E i \in 1 .. Len(self_platforms) : UnusedContent(pool[self_platforms[i]]) # <<>>

\* schedule_posts, lines 301-323: load the pool, create content when no platform has
\* unused content, reload; then the loop over the platforms starts
SchedulePostsBegin(o, readable) ==
    LET loaded == LoadedPool(o.pool_file, readable)
        has_content == HasContent(loaded)
        oc == [o EXCEPT !.cyc.loaded = TRUE,
                        !.cyc.empty_at_load =
                            {q \in PlatformSet : UnusedContent(loaded[q]) = <<>>},
                        !.cyc.forced = ~has_content]
    IN  /\ hist' = [rejected |-> {}, prev_rejected |-> hist.rejected,
                    reoffered |-> hist.rejected \subseteq UnusedIds(loaded)]
        /\ IF has_content
           THEN /\ SetOrch(oc)
                /\ content_pool' = loaded
                /\ pc' = "schedule_platform"
                /\ platform_idx' = 1
           ELSE \E gen \in GenChoices(oc), scan_ok \in ScanChoices(~oc.trend_report),
                   save_ok \in BOOLEAN :
                    LET r == CreateContentOp(oc, gen, scan_ok, save_ok, readable)
                    IN  IF r.ok
                        THEN /\ SetOrch(r.o)
                             /\ content_pool' = LoadedPool(r.o.pool_file, readable)
                             /\ pc' = "schedule_platform"
                             /\ platform_idx' = 1
                        ELSE /\ SetOrch([r.o EXCEPT !.cyc.returned = "none"])
                             /\ content_pool' = EmptyPool
                             /\ pc' = "idle"
                             /\ platform_idx' = 0
        /\ item_idx' = 0
        /\ unused_content' = <<>>
        /\ posting_times' = <<>>

\* run_daily_cycle (lines 422-453), the job of the daily trigger and of run_once:
\* step 1, step 2, and the start of step 3 (schedule_posts); readable says whether
\* the pool file can be read during this invocation
RunDailyCycleWhere(readable) ==
    /\ pc = "idle"
    /\ LET o0 == [Orch EXCEPT !.cyc = NewCyc("run_daily_cycle", BothWindowsOpen)]
           scan_due == IsDue(last_trend_scan, trend_scan_interval)
       IN  \E scan_ok \in ScanChoices(scan_due) :
              LET o1 == IF scan_due THEN ScanTrendsOp(o0, scan_ok) ELSE o0
              IN  IF scan_due /\ ~scan_ok
                  THEN \* "Trend scanning failed, aborting cycle"
                       /\ SetOrch([o1 EXCEPT !.cyc.returned = "none"])
                       /\ UNCHANGED <<pc, schedVars, hist>>
                  ELSE LET create_due == IsDue(o1.last_content_creation,
                                               content_creation_interval)
                       IN  IF create_due
                           THEN \E gen \in GenChoices(o1),
                                   scan2_ok \in ScanChoices(~o1.trend_report),
                                   save_ok \in BOOLEAN :
                                    LET r == CreateContentOp(o1, gen, scan2_ok, save_ok,
                                                             readable)
                                    IN  IF r.ok
                                        THEN SchedulePostsBegin(r.o, readable)
                                        ELSE /\ SetOrch([r.o EXCEPT !.cyc.returned = "none"])
                                             /\ UNCHANGED <<pc, schedVars, hist>>
                           ELSE SchedulePostsBegin(o1, readable)
    /\ UNCHANGED <<human_review, now, ticks, scheduled_posts>>
    /\ UNCHANGED <<plannerVars, extVars>>

RunDailyCycle == RunDailyCycleWhere(TRUE)

\* an invocation during which json.load of the pool file raises
RunDailyCycleUnreadable == RunDailyCycleWhere(FALSE)

\* lines 324-345: the next platform of the loop; its unused content and its times
SchedulePlatform ==
    /\ pc = "schedule_platform"
    /\ platform_idx <= Len(self_platforms)
    /\ LET platform == self_platforms[platform_idx]
           unused == UnusedContent(content_pool[platform])
           max_posts == MaxPostsPerDay(platform)
           posts_to_schedule == IF Len(unused) <= max_posts THEN Len(unused) ELSE max_posts
       IN  IF unused = <<>>
           THEN /\ cyc' = [cyc EXCEPT !.skipped = @ \cup {platform},
                                      !.visited = @ \cup {platform}]
                /\ platform_idx' = platform_idx + 1
                /\ UNCHANGED <<pc, item_idx, unused_content, posting_times>>
           ELSE /\ unused_content' = SubSeq(unused, 1, posts_to_schedule)
                /\ posting_times' =
                      GetBulkSchedule(DefaultOptimalTimes, platform, posts_to_schedule,
                                      now + StartDelayMinutes * Minute, MinHoursBetween)
                /\ item_idx' = 1
                /\ pc' = "schedule_item"
                /\ cyc' = [cyc EXCEPT !.visited = @ \cup {platform}]
                /\ UNCHANGED platform_idx
    /\ UNCHANGED <<human_review, now, ticks, last_trend_scan, last_content_creation,
                   trend_report, pool_file, next_id, content_pool, scheduled_posts, hist>>
    /\ UNCHANGED <<plannerVars, extVars>>

\* SchedulerAgent.schedule_post accepting a post: the post log is keyed by post_id,
\* and an entry of the same post_id is replaced
PostLogPut(posts, post_id, platform, scheduled_time) ==
    {r \in posts : r.id # post_id}
        \cup {[id |-> post_id, platform |-> platform, scheduled_time |-> scheduled_time]}

\* what happens inside the gate: the reviewer's answer, or an error (input() fails)
GateAnswers == {"yes", "no", "raised"}

\* _request_human_approval, lines 386-420: True for y/yes; an error is caught and
\* gives False
RequestHumanApproval_Always(answer) == TRUE

RequestHumanApproval(answer) == answer = "yes"

\* line 355: the gate's answer stops the item
Rejected_Ignored(approved) == FALSE

Rejected(approved) == ~approved

\* line 368: result.get('status') == 'scheduled'
ScheduleSucceeded_Always(result) == TRUE

ScheduleSucceeded(result) == result = "scheduled"

ScheduleResults == {"scheduled", "failed", "raised"}

\* after item i of the platform: the next item, or the next platform
AdvanceItem ==
    IF item_idx < Len(unused_content)
    THEN /\ item_idx' = item_idx + 1
         /\ UNCHANGED <<pc, platform_idx, unused_content, posting_times>>
    ELSE /\ item_idx' = 0
         /\ pc' = "schedule_platform"
         /\ platform_idx' = platform_idx + 1
         /\ unused_content' = <<>>
         /\ posting_times' = <<>>

\* lines 348-374: one item: the approval gate, schedule_post, the used mark
ScheduleItem ==
    /\ pc = "schedule_item"
    /\ LET platform == self_platforms[platform_idx]
           pos == unused_content[item_idx]
           content_item == content_pool[platform][pos]
           posting_time == posting_times[item_idx]
       IN  \E answer \in (IF human_review THEN GateAnswers ELSE {"not_asked"}) :
            LET approved == IF human_review THEN RequestHumanApproval(answer) ELSE TRUE
                asked == IF human_review
                         THEN [cyc EXCEPT
                                 !.gated = @ \cup {content_item.id},
                                 !.gate_true = IF approved THEN @ \cup {content_item.id}
                                               ELSE @,
                                 !.gate_raised = (answer = "raised")]
                         ELSE cyc
            IN
              IF human_review /\ Rejected(approved)
              THEN /\ cyc' = asked
                   /\ hist' = [hist EXCEPT !.rejected = @ \cup {content_item.id}]
                   /\ AdvanceItem
                   /\ UNCHANGED <<content_pool, scheduled_posts>>
              ELSE \E result \in ScheduleResults :
                      LET called == [asked EXCEPT
                                       !.called = @ \cup {content_item.id},
                                       !.sched_failed = IF result = "scheduled" THEN @
                                                        ELSE @ \cup {platform},
                                       !.recalled = IF content_item.id \in Succeeded
                                                    THEN @ \cup {content_item.id} ELSE @]
                      IN  /\ hist' = [hist EXCEPT
                                        !.rejected = IF approved THEN @
                                                     ELSE @ \cup {content_item.id}]
                          /\ scheduled_posts' =
                                IF result = "scheduled"
                                THEN PostLogPut(scheduled_posts, content_item.id, platform,
                                                posting_time)
                                ELSE scheduled_posts
                          /\ IF result = "raised"
                             THEN \* the handler's except: return False, nothing saved
                                  /\ cyc' = [called EXCEPT !.returned = "none"]
                                  /\ pc' = "idle"
                                  /\ content_pool' = EmptyPool
                                  /\ platform_idx' = 0
                                  /\ item_idx' = 0
                                  /\ unused_content' = <<>>
                                  /\ posting_times' = <<>>
                             ELSE IF ScheduleSucceeded(result)
                             THEN /\ cyc' = [called EXCEPT
                                               !.remarked =
                                                  IF content_item.id \in Succeeded
                                                  THEN @ \cup {content_item.id} ELSE @]
                                  /\ content_pool' =
                                        [content_pool EXCEPT ![platform][pos] =
                                            [@ EXCEPT !.used = TRUE,
                                                      !.scheduled_time = posting_time]]
                                  /\ AdvanceItem
                             ELSE /\ cyc' = called
                                  /\ AdvanceItem
                                  /\ UNCHANGED content_pool
    /\ UNCHANGED <<human_review, now, ticks, last_trend_scan, last_content_creation,
                   trend_report, pool_file, next_id>>
    /\ UNCHANGED <<plannerVars, extVars>>

\* lines 376-380: save the pool and return True
SchedulePostsEnd ==
    /\ pc = "schedule_platform"
    /\ platform_idx > Len(self_platforms)
    /\ \E save_ok \in BOOLEAN :
          pool_file' = SaveContentPool(pool_file, content_pool, save_ok)
    /\ cyc' = [cyc EXCEPT !.returned = "none", !.saved = TRUE]
    /\ pc' = "idle"
    /\ content_pool' = EmptyPool
    /\ platform_idx' = 0
    /\ UNCHANGED <<item_idx, unused_content, posting_times>>
    /\ UNCHANGED <<human_review, now, ticks, last_trend_scan, last_content_creation,
                   trend_report, next_id, scheduled_posts, hist>>
    /\ UNCHANGED <<plannerVars, extVars>>

\* no process has been replaced yet
NoRestart ==
    /\ restarts = 0
    /\ at_restart = [last_trend_scan |-> None, last_content_creation |-> None]

NoCallYet ==
    [op |-> "none", was_running |-> FALSE, jobs_before |-> 0, threads_before |-> 0,
     cycles |-> 0, join |-> "none", returned |-> TRUE]

\* lines 124-126, and the schedule module as imported: no job registered
RunnerInit ==
    /\ running = FALSE
    /\ jobs = [daily |-> 0, scan |-> 0]
    /\ scheduler_thread = 0
    /\ threads = <<>>
    /\ caller = "idle"
    /\ calls = 0
    /\ job_runs = 0
    /\ last_call = NoCallYet

MaxPosts == 2           \* post ids 1 .. MaxPosts

PostIds == 1 .. MaxPosts

NoPost == [status |-> "none", attempt_count |-> 0]

\* no post is scheduled, and nothing was published
DispatcherIdle ==
    /\ dry_run = FALSE
    /\ post_log = [id \in PostIds |-> NoPost]
    /\ publish_calls = 0

NoScan ==
    [called |-> FALSE, valid_cache |-> FALSE, scanner_calls |-> <<0, 0, 0>>,
     cache_writes |-> 0, keys |-> {}]

NoTrends == [timestamp |-> 0, twitter |-> "none", instagram |-> "none", linkedin |-> "none"]

\* cache/trends_cache.pkl does not exist
NoCacheFile == [file |-> "missing", timestamp |-> 0, data |-> NoTrends]

\* cache/trends_cache.pkl exists and cannot be unpickled
CorruptCacheFile == [file |-> "corrupt", timestamp |-> 0, data |-> NoTrends]

\* no cache file, and scan_all_platforms has not been called
ScannerIdle ==
    /\ clock = 0
    /\ trends_cache = NoCacheFile
    /\ last_scan = NoScan

RelIdle ==
    /\ rel_call = [topics |-> <<>>, trend_name |-> <<>>, returned |-> FALSE]
    /\ rel_ret = 0

RtIdle ==
    /\ rt_call = [before |-> <<>>, pool |-> <<>>, write |-> "none", phase |-> "none"]
    /\ rt_file = <<>>
    /\ rt_loaded = <<>>

\* no call of generate_text
TgIdle ==
    tg = [max_retries |-> 0, has_key |-> FALSE, retries |-> 0, outcomes |-> <<>>,
          slept |-> 0, status |-> "none"]

ExtIdle ==
    NoRestart /\ RunnerInit /\ DispatcherIdle /\ ScannerIdle /\ RelIdle /\ RtIdle /\ TgIdle

Init == OrchInit /\ PlannerIdle /\ ExtIdle

InitPlanner == PlannerInit /\ OrchInit /\ ~human_review /\ ExtIdle

SpecPlanner == InitPlanner /\ [][PlannerNext]_vars

Next ==
    \/ Tick
    \/ ScanTrends
    \/ RunDailyCycle
    \/ SchedulePlatform
    \/ ScheduleItem
    \/ SchedulePostsEnd

Spec == Init /\ [][Next]_vars

----------------------------------------------------------------------------
(* Properties of the Orchestrator, checked under Spec *)

\* C1: no double-scheduling: over any sequence of cycles (also ones in which
\* schedule_posts aborts on an exception or the save of the pool fails), an item is
\* marked used at most once and, once schedule_post has accepted it, it is never
\* passed to schedule_post again.
C1_NoDoubleScheduling ==
    /\ cyc.recalled = {}
    /\ cyc.remarked = {}

C2_UsedImpliesSucceeded ==
    /\ \A it \in AllItems(pool_file) \cup AllItems(content_pool) :
          it.used => it.id \in Succeeded
    /\ \A it \in AllItems(content_pool) :
          (it.id \in hist.rejected /\ it.id \notin cyc.called) => ~it.used

C2_UsedStaysUsed ==
    \A p \in PlatformSet : \A i \in 1 .. Len(pool_file[p]) :
        pool_file[p][i].used =>
            /\ i <= Len(pool_file'[p])
            /\ pool_file'[p][i].id = pool_file[p][i].id
            /\ pool_file'[p][i].used

\* C2: an item of the pool (as saved, and as held in memory by schedule_posts) has
\* used = true only if a schedule_post call for it returned success; an item the
\* approval gate was asked about is not marked by that; and used never goes from true
\* back to false in the saved pool.
C2_UsedOnlyAfterSuccess ==
    [](C2_UsedImpliesSucceeded) /\ [][C2_UsedStaysUsed]_vars

\* C2 witness: the saved pool holds a used item, and an item the gate rejected, unused.
C2_Witness ==
    /\ \E it \in AllItems(pool_file) : it.used /\ it.id \in Succeeded
    /\ \E it \in AllItems(pool_file) : ~it.used /\ it.id \in hist.rejected

InOpenWindows == cyc.op = "run_daily_cycle" /\ cyc.within

\* C9 as stated: a run_daily_cycle made while both interval windows are open invokes
\* neither the trend refresh nor content generation, and adds no item to the pool.
C9_Original_NoGeneration ==
    InOpenWindows =>
        /\ cyc.scans = 0
        /\ cyc.generated = {}
        /\ ~cyc.added

\* C9 amended: a run_daily_cycle made while both interval windows are open invokes no
\* trend refresh and goes to the scheduling step; content is generated in it only
\* when the scheduling step finds no unused item for any platform.
C9_GenerationOnlyWhenPoolExhausted ==
    InOpenWindows =>
        /\ cyc.scans = 0
        /\ cyc.loaded
        /\ (cyc.generated # {} \/ cyc.added) =>
              (cyc.forced /\ cyc.empty_at_load = PlatformSet)

\* C9 witness: a cycle made in open windows has ended; it generated nothing and
\* passed an item to schedule_post.
C9_Witness ==
    /\ InOpenWindows
    /\ cyc.returned = "none"
    /\ pc = "idle"
    /\ cyc.generated = {}
    /\ cyc.called # {}

\* C10 as stated: for a platform without unused item, content generation is invoked
\* for that platform before it is scheduled, whatever the other platforms hold.
C10_Original_ForcedPerPlatform ==
    cyc.loaded => cyc.empty_at_load \subseteq cyc.generated

PlatformIndex(platform) == CHOOSE i \in 1 .. Len(self_platforms) : self_platforms[i] = platform

LoopIsPast(platform) ==
    /\ pc \in {"schedule_platform", "schedule_item"}
    /\ platform_idx > PlatformIndex(platform)

\* C10 amended: the scheduling step forces content generation (create_content, for all
\* platforms) exactly when no platform has an unused item; a platform without unused
\* item while another one has some is skipped in that run: nothing is generated and
\* nothing is scheduled for it.
C10_ForcedOnlyWhenAllEmpty ==
    cyc.loaded =>
        /\ cyc.forced <=> cyc.empty_at_load = PlatformSet
        /\ ~cyc.forced =>
              \A p \in cyc.empty_at_load :
                  /\ LoopIsPast(p) => p \in cyc.skipped
                  /\ \A it \in AllItems(content_pool) :
                        it.platform = p => it.id \notin cyc.called
        /\ ~cyc.forced => (cyc.op = "run_daily_cycle" /\ ~cyc.within) \/ cyc.generated = {}

\* C10 witness: a run in which one platform was skipped for lack of unused content,
\* without any forced generation, while an item of another platform was scheduled.
C10_Witness ==
    /\ cyc.loaded
    /\ ~cyc.forced
    /\ cyc.skipped # {}
    /\ cyc.called # {}
    /\ cyc.empty_at_load # {}


----------------------------------------------------------------------------
(* Properties of PostScheduler, checked under SpecPlanner *)

Returned(op) == call.op = op /\ call.returned

\* C4: for every platform name (known or unknown), every from_time and every
\* max_days_ahead >= 0, get_optimal_time returns a time strictly later than from_time.
C4_OptimalTimeStrictlyLater ==
    Returned("get_optimal_time") => ret_time > call.from_time

\* C4 witness: an unknown platform, from_time exactly on a twitter slot with seconds
\* past the minute, and the answer is later than from_time.
C4_Witness ==
    /\ Returned("get_optimal_time")
    /\ optimal_times = DefaultOptimalTimes
    /\ call.platform = "tiktok"
    /\ call.from_time = At(0, 9, 0, 30)
    /\ call.max_days_ahead = 7
    /\ ret_time = At(0, 12, 0, 0)

\* C5: get_bulk_schedule returns exactly count times, in non-decreasing order, every
\* two consecutive ones at least min_hours_between hours apart.
C5_BulkScheduleSpacing ==
    Returned("get_bulk_schedule") =>
        /\ Len(ret_schedule) = call.count
        /\ \A i \in 1 .. (Len(ret_schedule) - 1) :
              /\ ret_schedule[i] <= ret_schedule[i + 1]
              /\ ret_schedule[i + 1] - ret_schedule[i] >= call.min_hours_between * Hour

\* C5 witness: three times were asked for with an 8 hour gap, and the second one is
\* the forced gap after the first (the next slot was only 3 hours away).
C5_Witness ==
    /\ Returned("get_bulk_schedule")
    /\ optimal_times = DefaultOptimalTimes
    /\ call.platform = "twitter"
    /\ call.count = 3
    /\ call.min_hours_between = 8
    /\ call.from_time = At(0, 8, 0, 0)
    /\ ret_schedule[1] = At(0, 9, 0, 0)
    /\ ret_schedule[2] = At(0, 17, 0, 0)

DictKeys(platforms) == {platforms[i] : i \in 1 .. Len(platforms)}

\* C6: the times get_multi_platform_schedule returns for two different platforms
\* differ by at least stagger_minutes, also when their own optimal slots coincide.
C6_MultiPlatformStagger ==
    Returned("get_multi_platform_schedule") =>
        /\ DOMAIN ret_multi = DictKeys(call.platforms)
        /\ \A p \in DOMAIN ret_multi : \A q \in DOMAIN ret_multi :
              (p # q /\ ret_multi[p] <= ret_multi[q]) =>
                  ret_multi[q] - ret_multi[p] >= call.stagger_minutes * Minute

\* C6 witness: twitter and instagram both have Saturday 11:00 as their own next slot,
\* and a schedule for both was returned with a positive stagger.
C6_Witness ==
    /\ Returned("get_multi_platform_schedule")
    /\ call.platforms = <<"twitter", "instagram">>
    /\ call.stagger_minutes = 15
    /\ GetOptimalTime(optimal_times, "twitter", call.from_time, DefaultMaxDaysAhead)
         = GetOptimalTime(optimal_times, "instagram", call.from_time, DefaultMaxDaysAhead)
    /\ ret_multi["twitter"] = At(5, 11, 0, 0)
    /\ ret_multi["instagram"] = At(5, 19, 0, 0)

\* the template of a platform has slots on one weekday only, from_time is on that
\* weekday and none of the slots is later in the day
OneWeekdayPassed(platform_times, from_time) ==
    /\ platform_times # {}
    /\ \A s \in platform_times :
          /\ s[1] = Weekday(from_time)
          /\ s[2] * Hour + s[3] * Minute < from_time % Day

\* C7: with slots on one weekday only and from_time on that weekday after the last
\* slot, get_optimal_time with max_days_ahead = 7 returns the first slot of that
\* weekday 7 days after from_time's date ([(Mon, 9, 0)], Monday 10:00 gives the
\* following Monday 09:00).
C7_SameWeekdayNextWeek ==
    LET platform_times == optimal_times[ResolvePlatform(optimal_times, call.platform)]
        hm == FirstSorted({<<s[2], s[3]>> : s \in platform_times})
    IN  ( /\ Returned("get_optimal_time")
          /\ call.max_days_ahead = 7
          /\ OneWeekdayPassed(platform_times, call.from_time) )
        => ret_time = ReplaceTime(call.from_time + 7 * Day, hm[1], hm[2])

IsC8Call ==
    /\ optimal_times = MondayTuesday
    /\ call.op = "get_bulk_schedule"
    /\ call.platform = "twitter"
    /\ call.count = 3
    /\ call.from_time = At(0, 8, 0, 0)
    /\ call.min_hours_between = 24

\* C8 as stated: with twitter slots Mon 09:00 and Tue 09:00 only,
\* get_bulk_schedule("twitter", 3, Monday 08:00, 24) returns
\* [Mon 09:00, Tue 09:00, Wed 09:00], the third by the forced 24 hour gap.
C8_Original_ThirdIsWednesday ==
    (IsC8Call /\ call.returned) =>
        ret_schedule = <<At(0, 9, 0, 0), At(1, 9, 0, 0), At(2, 9, 0, 0)>>

\* C8 amended: the same call returns [Mon 09:00, Tue 09:00, next Mon 09:00]: the third
\* time is the next template slot, found 6 days after Tuesday; no gap is forced, since
\* every gap is already at least 24 hours.
C8_ThirdIsNextMonday ==
    (IsC8Call /\ call.returned) =>
        ret_schedule = <<At(0, 9, 0, 0), At(1, 9, 0, 0), At(7, 9, 0, 0)>>

\* C8 witness: the call of the scenario has returned three times.
C8_Witness ==
    /\ IsC8Call
    /\ call.returned
    /\ Len(ret_schedule) = 3
    /\ ret_schedule[3] - ret_schedule[2] = 6 * Day

----------------------------------------------------------------------------
(* Orchestrator: the process is replaced (src/orchestrator.py, __init__) *)

MaxRestarts == 1        \* a new Orchestrator is constructed at most MaxRestarts times

\* when a status field was set last, over all processes so far
LastSet(last, before) == IF last # None THEN last ELSE before

\* Orchestrator.__init__ over the data directory of an earlier process, between two
\* handler runs: the trend report, the content pool (line 129: the file exists) and
\* the post log stay as they are; lines 133-134 set the status fields to None
Restart ==
    /\ pc = "idle"
    /\ restarts < MaxRestarts
    /\ restarts' = restarts + 1
    /\ at_restart' =
          [last_trend_scan |-> LastSet(last_trend_scan, at_restart.last_trend_scan),
           last_content_creation |->
               LastSet(last_content_creation, at_restart.last_content_creation)]
    /\ last_trend_scan' = None
    /\ last_content_creation' = None
    /\ cyc' = NewCyc("restart", FALSE)
    /\ UNCHANGED <<human_review, now, ticks, trend_report, pool_file, next_id, pc,
                   schedVars, scheduled_posts, hist>>
    /\ UNCHANGED exceptRestart

NextRestart ==
    \/ Tick
    \/ ScanTrends
    \/ RunDailyCycle
    \/ SchedulePlatform
    \/ ScheduleItem
    \/ SchedulePostsEnd
    \/ Restart

SpecRestart == Init /\ [][NextRestart]_vars

\* the first run_daily_cycle of a new process: no handler has run since the restart
FirstCycleAfterRestart == cyc.op = "restart" /\ cyc'.op = "run_daily_cycle"

StillFresh(t, interval) == t # None /\ now < t + interval * Hour

\* C11: when a trend scan (content creation) succeeded at time t and the process is
\* restarted, the first run_daily_cycle made before t + trend_scan_interval
\* (t + content_creation_interval) invokes no trend refresh (no content generation
\* other than the one the scheduling step forces on an exhausted pool).
C11_CycleStateSurvivesRestart ==
    [][FirstCycleAfterRestart =>
          /\ StillFresh(at_restart.last_trend_scan, trend_scan_interval)
                => cyc'.scans = 0
          /\ StillFresh(at_restart.last_content_creation, content_creation_interval)
                => (cyc'.generated = {} \/ cyc'.forced)]_vars

----------------------------------------------------------------------------
(* Further properties of the Orchestrator, checked under Spec *)

HandlerEnded == pc = "idle" /\ cyc.returned # "running"

\* C14: when generating content or scheduling a post fails for one platform (a raised
\* error or a failed result), the handler still comes to every platform and to the
\* save of the pool (the used marks made in the run are written), and a later cycle
\* can run.
C14_PlatformFailureIsolated ==
    /\ cyc.gen_failed # {} => cyc.generated = PlatformSet
    /\ (HandlerEnded /\ cyc.sched_failed # {}) =>
          /\ cyc.visited = PlatformSet
          /\ cyc.saved
    /\ HandlerEnded => ENABLED RunDailyCycle

\* C15: for every platform and every calendar day, the posts schedule_post accepted
\* with a scheduled time on that day are at most max_posts_per_day[platform].
C15_PerDayCap ==
    \A p \in PlatformSet : \A r \in scheduled_posts :
        Cardinality({q \in scheduled_posts :
                        q.platform = p /\ q.scheduled_time \div Day = r.scheduled_time \div Day})
            <= MaxPostsPerDay(p)


----------------------------------------------------------------------------
(* Orchestrator: start(), stop() and _scheduler_loop (src/orchestrator.py, lines    *)
(* 455-515).  One thread calls start() and stop(), one call after the other; every  *)
(* start() that goes through creates a worker thread.  A job (run_daily_cycle or    *)
(* scan_trends, the handlers of Spec) is taken here as the interval between its     *)
(* call and its return; what it has done to the cycle state (steps 1 and 2 of        *)
(* run_daily_cycle, or scan_trends) shows at its return.                            *)

MaxCalls == 4           \* start() and stop() are called at most MaxCalls times in all
MaxJobRuns == 2         \* the workers begin at most MaxJobRuns jobs

\* line 470: range(8, 20, self.trend_scan_interval), one scan job per hour of the range
ScanHours == {h \in 8 .. 19 : (h - 8) % trend_scan_interval = 0}

Workers == 1 .. Len(threads)

\* a thread that is still in _scheduler_loop
Alive(w) == threads[w] \notin {"exited", "unstarted"}

\* a thread that stays where it is for longer than the 5 seconds of the join: in
\* time.sleep(60), or inside a job
OutlastsJoin(w) == threads[w] \in {"sleeping", "run_daily_cycle", "scan_trends"}

\* line 457: if self.running
AlreadyRunning_Never(r) == FALSE

AlreadyRunning(r) == r

\* start(), lines 457-471: return when running; else set running and register the jobs
\* with the schedule module; the initial cycle (line 474) begins
StartBegin ==
    /\ caller = "idle"
    /\ calls < MaxCalls
    /\ calls' = calls + 1
    /\ IF AlreadyRunning(running)
       THEN /\ last_call' = [op |-> "start", was_running |-> running,
                             jobs_before |-> jobs.daily + jobs.scan,
                             threads_before |-> Len(threads), cycles |-> 0,
                             join |-> "none", returned |-> TRUE]
            /\ UNCHANGED <<running, jobs, caller>>
       ELSE /\ running' = TRUE
            /\ jobs' = [daily |-> jobs.daily + 1,
                        scan |-> jobs.scan + Cardinality(ScanHours)]
            /\ caller' = "start_cycle"
            /\ last_call' = [op |-> "start", was_running |-> running,
                             jobs_before |-> jobs.daily + jobs.scan,
                             threads_before |-> Len(threads), cycles |-> 0,
                             join |-> "none", returned |-> FALSE]
    /\ UNCHANGED <<scheduler_thread, threads, job_runs>>
    /\ UNCHANGED exceptRunner

\* everything a job leaves alone, the runner's variables apart
jobFrame ==
    <<plannerVars, restartVars, dispatchVars, scannerVars, relVars, rtVars, tgVars,
      human_review, now, ticks, pc, schedVars, scheduled_posts, hist>>

\* what a job has done to the cycle state when it returns: scan_trends (lines
\* 209-232), or steps 1 and 2 of run_daily_cycle (lines 427-443)
JobEffect(kind) ==
    LET o0 == [Orch EXCEPT !.cyc = NewCyc(kind, BothWindowsOpen)]
        scan_due == IsDue(last_trend_scan, trend_scan_interval)
    IN  IF kind = "scan_trends"
        THEN \E ok \in BOOLEAN : SetOrch(ScanTrendsOp(o0, ok))
        ELSE \E scan_ok \in ScanChoices(scan_due) :
                LET o1 == IF scan_due THEN ScanTrendsOp(o0, scan_ok) ELSE o0
                IN  IF scan_due /\ ~scan_ok
                    THEN SetOrch(o1)
                    ELSE IF IsDue(o1.last_content_creation, content_creation_interval)
                         THEN \E gen \in GenChoices(o1),
                                 scan2_ok \in ScanChoices(~o1.trend_report),
                                 save_ok \in BOOLEAN :
                                  SetOrch(CreateContentOp(o1, gen, scan2_ok, save_ok, TRUE).o)
                         ELSE SetOrch(o1)

\* line 474: the initial run_daily_cycle of start() returns
StartCycleEnd ==
    /\ caller = "start_cycle"
    /\ caller' = "start_thread"
    /\ last_call' = [last_call EXCEPT !.cycles = @ + 1]
    /\ JobEffect("run_daily_cycle")
    /\ UNCHANGED <<running, jobs, scheduler_thread, threads, calls, job_runs>>
    /\ UNCHANGED jobFrame

\* lines 477-487: the worker thread is created and started, and start() returns; when
\* Thread.start() raises, the except of line 485 clears running and start() returns
StartThread ==
    /\ caller = "start_thread"
    /\ \E started \in BOOLEAN :
          /\ threads' = Append(threads, IF started THEN "test" ELSE "unstarted")
          /\ running' = IF started THEN running ELSE FALSE
    /\ scheduler_thread' = Len(threads) + 1
    /\ caller' = "idle"
    /\ last_call' = [last_call EXCEPT !.returned = TRUE]
    /\ UNCHANGED <<jobs, calls, job_runs>>
    /\ UNCHANGED exceptRunner

\* stop(), lines 503-507: return when not running; else clear running and join
StopBegin ==
    /\ caller = "idle"
    /\ calls < MaxCalls
    /\ calls' = calls + 1
    /\ IF ~running
       THEN /\ last_call' = [op |-> "stop", was_running |-> running,
                             jobs_before |-> jobs.daily + jobs.scan,
                             threads_before |-> Len(threads), cycles |-> 0,
                             join |-> "none", returned |-> TRUE]
            /\ UNCHANGED <<running, caller>>
       ELSE /\ running' = FALSE
            /\ caller' = "stop_join"
            /\ last_call' = [op |-> "stop", was_running |-> running,
                             jobs_before |-> jobs.daily + jobs.scan,
                             threads_before |-> Len(threads), cycles |-> 0,
                             join |-> "none", returned |-> FALSE]
    /\ UNCHANGED <<jobs, scheduler_thread, threads, job_runs>>
    /\ UNCHANGED exceptRunner

\* lines 509-515: scheduler_thread.join(timeout=5.0) returns, the thread having left
\* its loop or the 5 seconds being over; stop() returns
StopJoin ==
    /\ caller = "stop_join"
    /\ \E timed_out \in BOOLEAN :
          /\ timed_out => OutlastsJoin(scheduler_thread)
          /\ ~timed_out => ~Alive(scheduler_thread)
          /\ last_call' = [last_call EXCEPT
                             !.join = IF timed_out THEN "timed_out" ELSE "joined",
                             !.returned = TRUE]
    /\ caller' = "idle"
    /\ UNCHANGED <<running, jobs, scheduler_thread, threads, calls, job_runs>>
    /\ UNCHANGED exceptRunner

\* _scheduler_loop, line 493: while self.running
LoopTest_Forever(w) ==
    /\ threads[w] = "test"
    /\ threads' = [threads EXCEPT ![w] = "pending"]
    /\ UNCHANGED <<running, jobs, scheduler_thread, caller, calls, job_runs, last_call>>
    /\ UNCHANGED exceptRunner

LoopTest(w) ==
    /\ threads[w] = "test"
    /\ threads' = [threads EXCEPT ![w] = IF running THEN "pending" ELSE "exited"]
    /\ UNCHANGED <<running, jobs, scheduler_thread, caller, calls, job_runs, last_call>>
    /\ UNCHANGED exceptRunner

\* line 495, schedule.run_pending(): a registered job is due and is called
JobBegin(w) ==
    /\ threads[w] = "pending"
    /\ job_runs < MaxJobRuns
    /\ \E kind \in {"run_daily_cycle", "scan_trends"} :
          /\ kind = "run_daily_cycle" => jobs.daily > 0
          /\ kind = "scan_trends" => jobs.scan > 0
          /\ threads' = [threads EXCEPT ![w] = kind]
    /\ job_runs' = job_runs + 1
    /\ UNCHANGED <<running, jobs, scheduler_thread, caller, calls, last_call>>
    /\ UNCHANGED exceptRunner

\* the job returns to run_pending
JobEnd(w) ==
    /\ threads[w] \in {"run_daily_cycle", "scan_trends"}
    /\ threads' = [threads EXCEPT ![w] = "pending"]
    /\ JobEffect(threads[w])
    /\ UNCHANGED <<running, jobs, scheduler_thread, caller, calls, job_runs, last_call>>
    /\ UNCHANGED jobFrame

\* lines 496 and 499: run_pending has returned (or raised), the thread sleeps
Sleep(w) ==
    /\ threads[w] = "pending"
    /\ threads' = [threads EXCEPT ![w] = "sleeping"]
    /\ UNCHANGED <<running, jobs, scheduler_thread, caller, calls, job_runs, last_call>>
    /\ UNCHANGED exceptRunner

\* the sleep is over
Wake(w) ==
    /\ threads[w] = "sleeping"
    /\ threads' = [threads EXCEPT ![w] = "test"]
    /\ UNCHANGED <<running, jobs, scheduler_thread, caller, calls, job_runs, last_call>>
    /\ UNCHANGED exceptRunner

NextRunner ==
    \/ StartBegin
    \/ StartCycleEnd
    \/ StartThread
    \/ StopBegin
    \/ StopJoin
    \/ \E w \in Workers : LoopTest(w)
    \/ \E w \in Workers : JobBegin(w)
    \/ \E w \in Workers : JobEnd(w)
    \/ \E w \in Workers : Sleep(w)
    \/ \E w \in Workers : Wake(w)

SpecRunner == Init /\ [][NextRunner]_vars


----------------------------------------------------------------------------
(* Properties of start(), stop() and the worker, checked under SpecRunner *)

RegisteredJobs == jobs.daily + jobs.scan

\* C12: a start() made while the orchestrator is running registers no job, creates no
\* thread and runs no cycle; a start() made while it is stopped runs exactly one
\* cycle, and the worker thread it creates exists only after that cycle has returned.
C12_StartIdempotent ==
    last_call.op = "start" =>
        IF last_call.was_running
        THEN /\ RegisteredJobs = last_call.jobs_before
             /\ Len(threads) = last_call.threads_before
             /\ last_call.cycles = 0
             /\ caller = "idle"
             /\ last_call.returned
        ELSE /\ RegisteredJobs = last_call.jobs_before + 1 + Cardinality(ScanHours)
             /\ caller = "start_cycle" =>
                   last_call.cycles = 0 /\ Len(threads) = last_call.threads_before
             /\ caller = "start_thread" =>
                   last_call.cycles = 1 /\ Len(threads) = last_call.threads_before
             /\ last_call.returned =>
                   /\ last_call.cycles = 1
                   /\ Len(threads) = last_call.threads_before + 1
                   /\ scheduler_thread = Len(threads)

\* C12 witness: a first start() has run its cycle and created the worker, which is
\* polling; a second start(), made while running, has returned.
C12_Witness ==
    /\ last_call.op = "start"
    /\ last_call.was_running
    /\ last_call.returned
    /\ Len(threads) = 1
    /\ threads[1] = "pending"
    /\ jobs.daily = 1

CyclesExecuting ==
    (IF caller = "start_cycle" THEN 1 ELSE 0)
        + Cardinality({w \in Workers : threads[w] \in {"run_daily_cycle", "scan_trends"}})

\* C13: in every state at most one worker thread is in the poll loop and at most one
\* cycle body (run_daily_cycle or scan_trends) is executing.
C13_OneWorkerOneCycle ==
    /\ Cardinality({w \in Workers : Alive(w)}) <= 1
    /\ CyclesExecuting <= 1


----------------------------------------------------------------------------
(* SchedulerAgent: a scheduled post and its publishing.  The class is constructed  *)
(* by the Orchestrator (src/orchestrator.py, lines 155-162); its own code is not   *)
(* part of the sources at hand, and its behaviour is taken from the design of the  *)
(* PostDispatcher: schedule_post creates a post with status pending; at the        *)
(* scheduled time the publisher is called; a transient error increments            *)
(* attempt_count and sets retrying, until attempt_count = max_retries, then        *)
(* failed; a permanent error sets failed; success sets dispatched; with dry_run    *)
(* the call is simulated and succeeds.                                             *)

\* line 160: max_retries=3
max_retries == 3

\* line 161: dry_run=self.dry_run
SchedulerDryRun_Off(orchestrator_dry_run) == FALSE

SchedulerDryRun(orchestrator_dry_run) == orchestrator_dry_run

DispatcherInit ==
    /\ dry_run \in BOOLEAN
    /\ post_log = [id \in PostIds |-> NoPost]
    /\ publish_calls = 0

\* schedule_post: a ScheduledPost with status pending is created and persisted
DispatcherSchedulePost(id) ==
    /\ post_log[id].status = "none"
    /\ post_log' = [post_log EXCEPT ![id] = [status |-> "pending", attempt_count |-> 0]]
    /\ UNCHANGED <<dry_run, publish_calls>>
    /\ UNCHANGED exceptDispatch

PublishOutcomes == {"success", "transient", "permanent"}

\* no retry is left after this many transient errors
RetriesExhausted_Never(attempt_count) == FALSE

RetriesExhausted(attempt_count) == attempt_count = max_retries

\* the post after a publish attempt with the given outcome
AfterAttempt(post, outcome) ==
    CASE outcome = "success" -> [post EXCEPT !.status = "dispatched"]
      [] outcome = "permanent" -> [post EXCEPT !.status = "failed"]
      [] outcome = "transient" ->
            [status |-> IF RetriesExhausted(post.attempt_count + 1)
                        THEN "failed" ELSE "retrying",
             attempt_count |-> post.attempt_count + 1]

\* the scheduled time of a pending post has come, or the backoff of a retrying one
\* is over: PlatformPublisher.publish is called; with dry_run it is simulated
PublishAttempt(id) ==
    /\ post_log[id].status \in {"pending", "retrying"}
    /\ IF SchedulerDryRun(dry_run)
       THEN /\ post_log' = [post_log EXCEPT ![id] = AfterAttempt(@, "success")]
            /\ UNCHANGED publish_calls
       ELSE /\ \E outcome \in PublishOutcomes :
                  post_log' = [post_log EXCEPT ![id] = AfterAttempt(@, outcome)]
            /\ publish_calls' = publish_calls + 1
    /\ UNCHANGED dry_run
    /\ UNCHANGED exceptDispatch

NextDispatcher ==
    \/ \E id \in PostIds : DispatcherSchedulePost(id)
    \/ \E id \in PostIds : PublishAttempt(id)

InitDispatcher ==
    /\ OrchInit /\ PlannerIdle /\ NoRestart /\ RunnerInit
    /\ DispatcherInit /\ ScannerIdle /\ RelIdle /\ RtIdle /\ TgIdle

SpecDispatcher == InitDispatcher /\ [][NextDispatcher]_vars

----------------------------------------------------------------------------
(* Properties of the scheduled posts, checked under SpecDispatcher *)

StatusRank(status) ==
    CASE status = "none" -> 0
      [] status = "pending" -> 1
      [] status = "approved" -> 2
      [] status = "retrying" -> 3
      [] status \in {"dispatched", "failed", "rejected"} -> 4

C16_CountBounded ==
    \A id \in PostIds :
        /\ post_log[id].attempt_count <= max_retries
        /\ post_log[id].attempt_count = max_retries => post_log[id].status = "failed"
        /\ post_log[id].status = "retrying" => post_log[id].attempt_count > 0

C16_StatusForward ==
    \A id \in PostIds :
        post_log'[id] # post_log[id] =>
            \/ StatusRank(post_log'[id].status) > StatusRank(post_log[id].status)
            \/ /\ post_log[id].status = "retrying"
               /\ post_log'[id].status = "retrying"
               /\ post_log'[id].attempt_count = post_log[id].attempt_count + 1

C17_DryRunPublishesNothing ==
    dry_run =>
        /\ publish_calls = 0
        /\ \A id \in PostIds : post_log[id].status \in {"none", "pending", "dispatched"}
        /\ \A id \in PostIds : post_log[id].attempt_count = 0

\* C17 witness: with dry_run, a post is dispatched and no publish call was made.
C17_Witness ==
    /\ dry_run
    /\ \E id \in PostIds : post_log[id].status = "dispatched"
    /\ publish_calls = 0


----------------------------------------------------------------------------
(* TrendScannerAgent.scan_all_platforms and the CacheManager                       *)
(* (src/agents/trend_scanner/agent.py, src/agents/trend_scanner/cache_manager.py)  *)

\* agent.py line 30: cache_duration: int = 3600
cache_duration == 3600

MaxClock == 10803       \* the scanner's clock is followed up to MaxClock seconds

ClockSteps == {1800, 3600, 3601}

\* agent.py lines 77-79: the scanners, in the order they are called
ScanOrder == <<"twitter", "instagram", "linkedin">>

ScannerNames == {ScanOrder[i] : i \in 1 .. Len(ScanOrder)}

\* cache_manager.py lines 66-89: None when the file is missing or cannot be unpickled
GetCachedTrends(file) ==
    IF file.file = "entry"
    THEN [found |-> TRUE, timestamp |-> file.timestamp, data |-> file.data]
    ELSE [found |-> FALSE, timestamp |-> 0, data |-> NoTrends]

\* agent.py lines 114-128
IsCacheExpired_Never(timestamp) == FALSE

IsCacheExpired(timestamp) == clock > timestamp + cache_duration

\* agent.py lines 75-80: every scanner is called once, its result (or {"error": ...}
\* when it raised, lines 87-112) is stored under its name
TrendsData(results) ==
    [timestamp |-> clock, twitter |-> results["twitter"],
     instagram |-> results["instagram"], linkedin |-> results["linkedin"]]

CallsOf(name, order) == Cardinality({i \in 1 .. Len(order) : order[i] = name})

\* cache_manager.py lines 37-64: the pickle file is written; when that fails the
\* error is logged, and the file is as before or left cut off
CacheTrends(file, trends_data, write) ==
    CASE write = "written" -> [file |-> "entry", timestamp |-> clock, data |-> trends_data]
      [] write = "failed" -> file
      [] write = "cut_off" -> CorruptCacheFile

CacheWrites == {"written", "failed", "cut_off"}

\* an unexpired cache entry exists
UnexpiredEntry ==
    /\ trends_cache.file = "entry"
    /\ clock <= trends_cache.timestamp + cache_duration

\* scan_all_platforms, agent.py lines 57-85
ScanAllPlatforms ==
    /\ LET cached_data == GetCachedTrends(trends_cache)
       IN  IF cached_data.found /\ ~IsCacheExpired(cached_data.timestamp)
           THEN /\ last_scan' =
                      [called |-> TRUE, valid_cache |-> UnexpiredEntry,
                       scanner_calls |-> <<0, 0, 0>>, cache_writes |-> 0,
                       keys |-> DOMAIN cached_data.data]
                /\ UNCHANGED trends_cache
           ELSE \E results \in [ScannerNames -> {"trends", "error"}], write \in CacheWrites :
                   LET trends_data == TrendsData(results)
                   IN  /\ trends_cache' = CacheTrends(trends_cache, trends_data, write)
                       /\ last_scan' =
                             [called |-> TRUE, valid_cache |-> UnexpiredEntry,
                              scanner_calls |->
                                  <<CallsOf("twitter", ScanOrder),
                                    CallsOf("instagram", ScanOrder),
                                    CallsOf("linkedin", ScanOrder)>>,
                              cache_writes |-> 1,
                              keys |-> DOMAIN trends_data]
    /\ UNCHANGED clock
    /\ UNCHANGED exceptScanner

\* cache_manager.py lines 91-109: clear_cache removes the file
ClearCache ==
    /\ trends_cache.file # "missing"
    /\ trends_cache' = NoCacheFile
    /\ UNCHANGED <<clock, last_scan>>
    /\ UNCHANGED exceptScanner

\* time passes between two calls
ClockAdvance ==
    /\ \E step \in ClockSteps :
          /\ clock + step <= MaxClock
          /\ clock' = clock + step
    /\ last_scan' = NoScan
    /\ UNCHANGED trends_cache
    /\ UNCHANGED exceptScanner

ScannerNext == ScanAllPlatforms \/ ClearCache \/ ClockAdvance

InitScanner == Init

SpecScanner == InitScanner /\ [][ScannerNext]_vars

\* C19: a call of scan_all_platforms made while no unexpired cache entry exists calls
\* each of the three scanners exactly once, returns a result with the keys twitter,
\* instagram and linkedin, and writes the cache exactly once; a call made while an
\* unexpired entry exists calls no scanner and writes nothing.
C19_ScanOnceOrServeCache ==
    last_scan.called =>
        IF last_scan.valid_cache
        THEN /\ last_scan.scanner_calls = <<0, 0, 0>>
             /\ last_scan.cache_writes = 0
        ELSE /\ last_scan.scanner_calls = <<1, 1, 1>>
             /\ {"twitter", "instagram", "linkedin"} \subseteq last_scan.keys
             /\ last_scan.cache_writes = 1

\* a call served from an entry written by an earlier call, some time before
C19_Witness ==
    /\ last_scan.called
    /\ last_scan.valid_cache
    /\ last_scan.scanner_calls = <<0, 0, 0>>
    /\ clock > trends_cache.timestamp


----------------------------------------------------------------------------
(* TwitterScanner._calculate_relevance (src/agents/trend_scanner/twitter_scanner.py) *)
(* A string is the sequence of its characters.                                     *)

UpperCase ==
    <<"A", "B", "C", "D", "E", "F", "G", "H", "I", "J", "K", "L", "M",
      "N", "O", "P", "Q", "R", "S", "T", "U", "V", "W", "X", "Y", "Z">>

LowerCase ==
    <<"a", "b", "c", "d", "e", "f", "g", "h", "i", "j", "k", "l", "m",
      "n", "o", "p", "q", "r", "s", "t", "u", "v", "w", "x", "y", "z">>

LowerChar(c) ==
    IF \E i \in 1 .. Len(UpperCase) : UpperCase[i] = c
    THEN LowerCase[CHOOSE i \in 1 .. Len(UpperCase) : UpperCase[i] = c]
    ELSE c

\* str.lower()
LowerStr(str) == [i \in 1 .. Len(str) |-> LowerChar(str[i])]

\* sub in str
Contains(sub, str) ==
    \E i \in 0 .. Len(str) - Len(sub) : SubSeq(str, i + 1, i + Len(sub)) = sub

\* str.startswith(prefix)
StartsWith(str, prefix) ==
    /\ Len(prefix) <= Len(str)
    /\ SubSeq(str, 1, Len(prefix)) = prefix

RECURSIVE SplitFrom(_, _, _)
\* str.split(): the maximal runs of characters other than the blank
SplitFrom(str, i, word) ==
    IF i > Len(str)
    THEN IF word = <<>> THEN <<>> ELSE <<word>>
    ELSE IF str[i] = " "
         THEN (IF word = <<>> THEN <<>> ELSE <<word>>) \o SplitFrom(str, i + 1, <<>>)
         ELSE SplitFrom(str, i + 1, Append(word, str[i]))

Split(str) == SplitFrom(str, 1, <<>>)

\* _calculate_relevance, lines 147-173; relevant_topics are lower case (line 30).
\* The score is given in tenths: 10 for 1.0, 5 for 0.5, 0 for 0.0.
CalculateRelevance(relevant_topics, trend_name) ==
    LET name == LowerStr(trend_name)
        words == Split(name)
    IN  IF \E t \in 1 .. Len(relevant_topics) : Contains(relevant_topics[t], name)
        THEN 10
        ELSE IF \E t \in 1 .. Len(relevant_topics) : \E w \in 1 .. Len(words) :
                   \/ StartsWith(words[w], relevant_topics[t])
                   \/ StartsWith(relevant_topics[t], words[w])
             THEN 5
             ELSE 0

\* words of the trend names tried
Vocabulary ==
    {<<"L", "a", "t", "e", "s", "t">>,
     <<"S", "p", "a", "c", "e">>,
     <<"N", "e", "w", "s">>,
     <<"s", "p", "a", "c", "e", "c", "r", "a", "f", "t">>,
     <<"l", "a", "u", "n", "c", "h">>,
     <<"p", "o", "l", "i", "t", "i", "c", "s">>,
     <<"t", "o", "d", "a", "y">>,
     <<"s", "p", "a">>,
     <<"P", "h", "y", "s", "i", "c", "s">>,
     <<"a", "e", "r", "o", "s", "p", "a", "c", "e">>}

MaxWords == 2         \* trend names of up to MaxWords words of the vocabulary

RECURSIVE Phrases(_)
\* the names of exactly n words, joined by one blank
Phrases(n) ==
    IF n = 1 THEN Vocabulary
    ELSE {p \o <<" ">> \o w : p \in Phrases(n - 1), w \in Vocabulary}

LatestSpaceNews == <<"L", "a", "t", "e", "s", "t", " ", "S", "p", "a", "c", "e", " ", "N", "e", "w", "s">>

SpacecraftLaunch == <<"s", "p", "a", "c", "e", "c", "r", "a", "f", "t", " ", "l", "a", "u", "n", "c", "h">>

TrendNames == UNION {Phrases(n) : n \in 1 .. MaxWords} \cup {LatestSpaceNews}

\* test_trend_scanner.py: relevant_topics of the scanner under test, and shorter lists
TopicLists ==
    {<<<<"a", "s", "t", "r", "o", "n", "o", "m", "y">>, <<"s", "p", "a", "c", "e">>, <<"p", "h", "y", "s", "i", "c", "s">>>>,
     <<<<"s", "p", "a", "c", "e">>>>,
     <<<<"P", "h", "y", "s", "i", "c", "s">>, <<"a", "s", "t", "r", "o", "n", "o", "m", "y">>>>}

\* TwitterScanner.__init__, line 30: the topics are stored in lower case
StoredTopics(topics) == [t \in 1 .. Len(topics) |-> LowerStr(topics[t])]

\* a scanner is built with a topic list and asked about one trend name
InitRelevance ==
    /\ OrchInit /\ PlannerIdle /\ ~human_review
    /\ NoRestart /\ RunnerInit /\ DispatcherIdle /\ ScannerIdle /\ RtIdle /\ TgIdle
    /\ \E topics \in TopicLists, trend_name \in TrendNames :
          rel_call = [topics |-> StoredTopics(topics), trend_name |-> trend_name,
                      returned |-> FALSE]
    /\ rel_ret = 0

CalculateRelevanceOp ==
    /\ ~rel_call.returned
    /\ rel_call.topics # <<>>
    /\ rel_ret' = CalculateRelevance(rel_call.topics, rel_call.trend_name)
    /\ rel_call' = [rel_call EXCEPT !.returned = TRUE]
    /\ UNCHANGED exceptRel

RelevanceNext == CalculateRelevanceOp

SpecRelevance == InitRelevance /\ [][RelevanceNext]_vars

\* a relevant topic is a whole word of the trend name
WholeWordMatch(relevant_topics, trend_name) ==
    \E t \in 1 .. Len(relevant_topics) : \E w \in 1 .. Len(Split(LowerStr(trend_name))) :
        Split(LowerStr(trend_name))[w] = relevant_topics[t]

\* a word starts with a topic or a topic starts with a word
PrefixMatch(relevant_topics, trend_name) ==
    \E t \in 1 .. Len(relevant_topics) : \E w \in 1 .. Len(Split(LowerStr(trend_name))) :
        \/ StartsWith(Split(LowerStr(trend_name))[w], relevant_topics[t])
        \/ StartsWith(relevant_topics[t], Split(LowerStr(trend_name))[w])

\* C20: _calculate_relevance returns 1.0 when a relevant topic is a whole word of the
\* trend name, 0.5 when a topic only partially matches a word (a word starts with the
\* topic or the topic starts with the word, as "spacecraft launch" with topic "space"),
\* and a value below 0.5 when nothing matches.
C20_RelevanceByMatchKind ==
    rel_call.returned =>
        LET whole == WholeWordMatch(rel_call.topics, rel_call.trend_name)
            partial == PrefixMatch(rel_call.topics, rel_call.trend_name)
        IN  /\ whole => rel_ret = 10
            /\ (~whole /\ partial) => rel_ret = 5
            /\ (~whole /\ ~partial) => rel_ret < 5


----------------------------------------------------------------------------
(* _save_content_pool and _load_content_pool (src/orchestrator.py lines 192-207)   *)
(* with json.dump and json.load.  A pool (a dict in insertion order) is the         *)
(* sequence of its entries [platform, items]; an item is a dict with the keys       *)
(* named in its field keys.  A JSON text is the sequence of its tokens.             *)

MaxPoolItems == 2       \* pools of up to MaxPoolItems items per platform

Punct(v) == [k |-> "punct", v |-> v]

\* a str is written between quotes
DumpStr(str) == [k |-> "string", v |-> str]

\* json.dump writes True as true and False as false
DumpBool_Repr(b) == [k |-> "literal", v |-> IF b THEN "True" ELSE "False"]

DumpBool(b) == [k |-> "literal", v |-> IF b THEN "true" ELSE "false"]

EndOfText == [k |-> "end", v |-> ""]

Tok(toks, i) == IF i >= 1 /\ i <= Len(toks) THEN toks[i] ELSE EndOfText

\* the members of an item, in the order the keys were set (lines 270-272, 369-371)
ItemKeyOrder == <<"text", "id", "used", "scheduled_time">>

DumpMember(item, key) ==
    <<DumpStr(key), Punct(":"),
      IF key = "used" THEN DumpBool(item.used) ELSE DumpStr(item[key])>>

RECURSIVE DumpMembers(_, _, _)
DumpMembers(item, i, first) ==
    IF i > Len(ItemKeyOrder) THEN <<>>
    ELSE IF ItemKeyOrder[i] \in item.keys
         THEN (IF first THEN <<>> ELSE <<Punct(",")>>)
                  \o DumpMember(item, ItemKeyOrder[i]) \o DumpMembers(item, i + 1, FALSE)
         ELSE DumpMembers(item, i + 1, first)

DumpItem(item) == <<Punct("{")>> \o DumpMembers(item, 1, TRUE) \o <<Punct("}")>>

RECURSIVE DumpItems(_, _)
DumpItems(items, i) ==
    IF i > Len(items) THEN <<>>
    ELSE (IF i = 1 THEN <<>> ELSE <<Punct(",")>>) \o DumpItem(items[i]) \o DumpItems(items, i + 1)

DumpList(items) == <<Punct("[")>> \o DumpItems(items, 1) \o <<Punct("]")>>

RECURSIVE DumpEntries(_, _)
DumpEntries(pool, i) ==
    IF i > Len(pool) THEN <<>>
    ELSE (IF i = 1 THEN <<>> ELSE <<Punct(",")>>)
             \o <<DumpStr(pool[i].platform), Punct(":")>> \o DumpList(pool[i].items)
             \o DumpEntries(pool, i + 1)

\* json.dump(content_pool, f, indent=2)
JsonDump(pool) == <<Punct("{")>> \o DumpEntries(pool, 1) \o <<Punct("}")>>

NoItem == [keys |-> {}, text |-> "", id |-> "", used |-> FALSE, scheduled_time |-> ""]

ParseFailed == [ok |-> FALSE, val |-> <<>>, next |-> 0]

\* one member of an item at position i: "key" : value
SetMember(item, key, value) ==
    IF key = "used"
    THEN IF value.k = "literal" /\ value.v \in {"true", "false"}
         THEN [ok |-> TRUE,
               val |-> [item EXCEPT !.keys = @ \cup {key}, !.used = (value.v = "true")]]
         ELSE [ok |-> FALSE, val |-> item]
    ELSE IF value.k = "string" /\ key \in {"text", "id", "scheduled_time"}
         THEN [ok |-> TRUE, val |-> [item EXCEPT !.keys = @ \cup {key}, ![key] = value.v]]
         ELSE [ok |-> FALSE, val |-> item]

RECURSIVE ParseMembers(_, _, _)
\* the members of an object, up to and with its closing brace
ParseMembers(toks, i, item) ==
    IF Tok(toks, i).k # "string" \/ Tok(toks, i + 1) # Punct(":")
    THEN ParseFailed
    ELSE LET m == SetMember(item, Tok(toks, i).v, Tok(toks, i + 2))
         IN  IF ~m.ok THEN ParseFailed
             ELSE IF Tok(toks, i + 3) = Punct(",") THEN ParseMembers(toks, i + 4, m.val)
             ELSE IF Tok(toks, i + 3) = Punct("}")
                  THEN [ok |-> TRUE, val |-> m.val, next |-> i + 4]
                  ELSE ParseFailed

ParseItem(toks, i) ==
    IF Tok(toks, i) # Punct("{") THEN ParseFailed
    ELSE IF Tok(toks, i + 1) = Punct("}")
         THEN [ok |-> TRUE, val |-> NoItem, next |-> i + 2]
         ELSE ParseMembers(toks, i + 1, NoItem)

RECURSIVE ParseItems(_, _, _)
\* the elements of an array, up to and with its closing bracket
ParseItems(toks, i, items) ==
    LET it == ParseItem(toks, i)
    IN  IF ~it.ok THEN ParseFailed
        ELSE IF Tok(toks, it.next) = Punct(",")
             THEN ParseItems(toks, it.next + 1, Append(items, it.val))
        ELSE IF Tok(toks, it.next) = Punct("]")
             THEN [ok |-> TRUE, val |-> Append(items, it.val), next |-> it.next + 1]
             ELSE ParseFailed

ParseList(toks, i) ==
    IF Tok(toks, i) # Punct("[") THEN ParseFailed
    ELSE IF Tok(toks, i + 1) = Punct("]")
         THEN [ok |-> TRUE, val |-> <<>>, next |-> i + 2]
         ELSE ParseItems(toks, i + 1, <<>>)

RECURSIVE ParseEntries(_, _, _)
ParseEntries(toks, i, pool) ==
    IF Tok(toks, i).k # "string" \/ Tok(toks, i + 1) # Punct(":")
    THEN ParseFailed
    ELSE LET l == ParseList(toks, i + 2)
             entry == [platform |-> Tok(toks, i).v, items |-> l.val]
         IN  IF ~l.ok THEN ParseFailed
             ELSE IF Tok(toks, l.next) = Punct(",")
                  THEN ParseEntries(toks, l.next + 1, Append(pool, entry))
             ELSE IF Tok(toks, l.next) = Punct("}")
                  THEN [ok |-> TRUE, val |-> Append(pool, entry), next |-> l.next + 1]
                  ELSE ParseFailed

\* json.load(f): the value, or an error when the text is not one JSON document
JsonLoad(toks) ==
    LET r == IF Tok(toks, 1) # Punct("{") THEN ParseFailed
             ELSE IF Tok(toks, 2) = Punct("}")
                  THEN [ok |-> TRUE, val |-> <<>>, next |-> 3]
                  ELSE ParseEntries(toks, 2, <<>>)
    IN  IF r.ok /\ r.next = Len(toks) + 1 THEN r ELSE ParseFailed

\* {platform: [] for platform in self.platforms}, lines 184 and 199
EmptyPoolDict == [i \in 1 .. Len(self_platforms) |-> [platform |-> self_platforms[i], items |-> <<>>]]

\* _load_content_pool, lines 192-199
LoadContentPool(file) ==
    LET r == JsonLoad(file)
    IN  IF r.ok THEN r.val ELSE EmptyPoolDict

WriteOutcomes == {"written", "refused", "cut_off"}

\* _save_content_pool, lines 201-207: open(path, 'w') and json.dump; an error is only
\* logged.  "refused": open raises and the file stays; "cut_off": the write stops
\* part-way and leaves the beginning of the text
SaveContentPoolFile(file, pool, write) ==
    CASE write = "written" -> JsonDump(pool)
      [] write = "refused" -> file
      [] write = "cut_off" -> SubSeq(JsonDump(pool), 1, Len(JsonDump(pool)) \div 2)

\* the items the program builds (lines 270-272 and 369-371)
ItemIds ==
    [twitter |-> <<"twitter_1", "twitter_2", "twitter_3", "twitter_4">>,
     linkedin |-> <<"linkedin_1", "linkedin_2", "linkedin_3", "linkedin_4">>]

Texts == {"Look up tonight", "New telescope"}

ItemVariants(platform, i) ==
    {[keys |-> {"text", "id", "used"}, text |-> t, id |-> ItemIds[platform][i],
      used |-> FALSE, scheduled_time |-> ""] : t \in Texts}
    \cup
    {[keys |-> {"text", "id", "used", "scheduled_time"}, text |-> t,
      id |-> ItemIds[platform][i], used |-> TRUE,
      scheduled_time |-> "2025-01-06T09:00:00"] : t \in Texts}

ItemLists(platform) ==
    UNION {{l \in [1 .. n -> UNION {ItemVariants(platform, i) : i \in 1 .. n}] :
               \A i \in 1 .. n : l[i] \in ItemVariants(platform, i)} : n \in 0 .. MaxPoolItems}

ListsOf == [platform \in PlatformSet |-> ItemLists(platform)]

AllItemLists == UNION {ListsOf[platform] : platform \in PlatformSet}

Pools ==
    {[i \in 1 .. Len(self_platforms) |-> [platform |-> self_platforms[i], items |-> f[i]]] :
        f \in {g \in [1 .. Len(self_platforms) -> AllItemLists] :
                 \A i \in 1 .. Len(self_platforms) : g[i] \in ListsOf[self_platforms[i]]}}

\* what the file held before: the empty pool of _init_content_pool, or one item
PoolsBefore ==
    {EmptyPoolDict,
     [EmptyPoolDict EXCEPT ![1].items =
         <<[keys |-> {"text", "id", "used"}, text |-> "Earlier post", id |-> "twitter_0",
            used |-> FALSE, scheduled_time |-> ""]>>]}

InitRoundTrip ==
    /\ OrchInit /\ PlannerIdle /\ ~human_review
    /\ NoRestart /\ RunnerInit /\ DispatcherIdle /\ ScannerIdle /\ RelIdle /\ TgIdle
    /\ \E before \in PoolsBefore, pool \in Pools, write \in WriteOutcomes :
          /\ rt_call = [before |-> before, pool |-> pool, write |-> write, phase |-> "start"]
          /\ rt_file = JsonDump(before)
    /\ rt_loaded = <<>>

RtSave ==
    /\ rt_call.phase = "start"
    /\ rt_file' = SaveContentPoolFile(rt_file, rt_call.pool, rt_call.write)
    /\ rt_call' = [rt_call EXCEPT !.phase = "saved"]
    /\ UNCHANGED rt_loaded
    /\ UNCHANGED exceptRt

RtLoad ==
    /\ rt_call.phase = "saved"
    /\ rt_loaded' = LoadContentPool(rt_file)
    /\ rt_call' = [rt_call EXCEPT !.phase = "loaded"]
    /\ UNCHANGED rt_file
    /\ UNCHANGED exceptRt

RoundTripNext == RtSave \/ RtLoad

SpecRoundTrip == InitRoundTrip /\ [][RoundTripNext]_vars

----------------------------------------------------------------------------
(* PostScheduler.get_optimal_time: the slot occurrences of the window *)

\* the occurrences of the slots of a table on the max_days_ahead days that start with
\* from_time's date, later than from_time
LaterOccurrences(platform_times, from_time, max_days_ahead) ==
    {t \in {At(d, s[2], s[3], 0) :
               d \in (from_time \div Day) .. ((from_time \div Day) + max_days_ahead - 1),
               s \in platform_times} :
        /\ \E s \in platform_times : s[1] = Weekday(t) /\ s[2] = HourOf(t) /\ s[3] = MinuteOf(t)
        /\ t > from_time}

\* the table the call is answered from, named without the lookup of lines 114-117
TableOf(platform) ==
    IF platform \in {"twitter", "Twitter", "tiktok"} THEN optimal_times.twitter
    ELSE IF platform = "instagram" THEN optimal_times.instagram
    ELSE optimal_times.linkedin

\* C21: whenever the window of max_days_ahead days starting at from_time's date holds a
\* slot occurrence strictly later than from_time, get_optimal_time returns the earliest
\* such occurrence, with seconds equal to zero.
C21_EarliestOccurrence ==
    LET occ == LaterOccurrences(TableOf(call.platform), call.from_time, call.max_days_ahead)
    IN  (Returned("get_optimal_time") /\ occ # {}) =>
            /\ ret_time \in occ
            /\ \A t \in occ : ret_time <= t
            /\ SecondOf(ret_time) = 0

\* C21 witness: asked on Monday 10:00:00 for instagram, whose Monday slots are 10:30 and
\* 18:00, the answer is Monday 10:30
C21_Witness ==
    /\ Returned("get_optimal_time")
    /\ optimal_times = DefaultOptimalTimes
    /\ call.platform = "instagram"
    /\ call.from_time = At(0, 10, 0, 0)
    /\ call.max_days_ahead = 7
    /\ ret_time = At(0, 10, 30, 0)

\* C22: when no slot qualifies on any of the day offsets 0..max_days_ahead-1 (also when
\* max_days_ahead = 0), get_optimal_time returns from_time + 1 day with seconds set to
\* zero and from_time's hour and minute.
C22_FallbackTomorrow ==
    LET occ == LaterOccurrences(TableOf(call.platform), call.from_time, call.max_days_ahead)
    IN  (Returned("get_optimal_time") /\ occ = {}) =>
            /\ ret_time = call.from_time + Day - SecondOf(call.from_time)
            /\ HourOf(ret_time) = HourOf(call.from_time)
            /\ MinuteOf(ret_time) = MinuteOf(call.from_time)
            /\ SecondOf(ret_time) = 0

\* C22 witness: the twitter table holds Monday 09:00 only; asked on Tuesday 08:00:30
\* with a window of three days, the answer is Wednesday 08:00:00
C22_Witness ==
    /\ Returned("get_optimal_time")
    /\ optimal_times = MondayOnly
    /\ call.platform = "twitter"
    /\ call.from_time = At(1, 8, 0, 30)
    /\ call.max_days_ahead = 3
    /\ ret_time = At(2, 8, 0, 0)

\* C23: for a platform name that is not a key of the slot table, get_optimal_time
\* returns what it returns for "twitter" with the same from_time and max_days_ahead;
\* names are matched without regard to case ("Twitter" is "twitter").
C23_UnknownPlatformIsTwitter ==
    (Returned("get_optimal_time") /\ call.platform \notin DOMAIN optimal_times) =>
        ret_time = GetOptimalTime(optimal_times, "twitter", call.from_time,
                                  call.max_days_ahead)

\* C23 witness: "Twitter" asked on Saturday 10:00:00 gets twitter's Saturday 11:00
C23_Witness ==
    /\ Returned("get_optimal_time")
    /\ optimal_times = DefaultOptimalTimes
    /\ call.platform = "Twitter"
    /\ call.from_time = At(5, 10, 0, 0)
    /\ call.max_days_ahead = 7
    /\ ret_time = At(5, 11, 0, 0)


----------------------------------------------------------------------------
(* Orchestrator.run_daily_cycle: a failed trend scan *)

\* the step is an invocation of run_daily_cycle whose step 1 scanned and failed
Step1Failed ==
    /\ pc = "idle"
    /\ IsDue(last_trend_scan, trend_scan_interval)
    /\ cyc'.op = "run_daily_cycle"
    /\ cyc'.scans >= 1
    /\ cyc'.scan_failed

\* C24: last_trend_scan is updated only by a trend scan that fetched and saved the
\* report; when the scan of step 1 fails, last_trend_scan, last_content_creation and
\* the content pool stay as they are, that invocation of run_daily_cycle neither
\* creates content nor schedules, and the scan is still due for the next invocation.
C24_FailedScanChangesNothing ==
    [][/\ (last_trend_scan' # last_trend_scan) =>
              /\ cyc'.scans >= 1
              /\ ~cyc'.scan_failed
              /\ trend_report'
              /\ last_trend_scan' = now
       /\ Step1Failed =>
              /\ UNCHANGED <<last_trend_scan, last_content_creation, pool_file>>
              /\ cyc'.generated = {} /\ ~cyc'.added
              /\ ~cyc'.loaded /\ cyc'.called = {}
              /\ cyc'.returned = "none" /\ pc' = "idle"
              /\ UNCHANGED scheduled_posts
              /\ IsDue(last_trend_scan', trend_scan_interval)]_vars

\* C24 witness: a cycle had scanned and filled the pool; more than trend_scan_interval
\* hours later the scan of step 1 failed and the cycle ended there
C24_Witness ==
    /\ pc = "idle"
    /\ cyc.op = "run_daily_cycle" /\ cyc.scan_failed /\ cyc.returned = "none"
    /\ ~cyc.loaded
    /\ last_trend_scan # None /\ now - last_trend_scan > trend_scan_interval * Hour
    /\ AllItems(pool_file) # {}


----------------------------------------------------------------------------
(* Orchestrator.schedule_posts: the approval gate *)

\* the item the loop of schedule_posts is at
CurrentItem == content_pool[self_platforms[platform_idx]][unused_content[item_idx]]

C25_GateBeforeSchedulePost ==
    /\ ~human_review => cyc.gated = {}
    /\ cyc.gate_true \subseteq cyc.gated
    /\ human_review => cyc.called \subseteq cyc.gate_true
    /\ cyc.gate_raised => cyc.gate_true # cyc.gated

C25_GateStep ==
    pc = "schedule_item" =>
        /\ ~human_review => CurrentItem.id \in cyc'.called
        /\ human_review => CurrentItem.id \in cyc'.gated
        /\ cyc'.gate_raised =>
              /\ cyc'.returned = "running"
              /\ pc' \in {"schedule_item", "schedule_platform"}
              /\ CurrentItem.id \notin cyc'.called

\* C25: the approval gate is consulted only when human_review is enabled, and before
\* the schedule_post call for the item: with human_review disabled every selected
\* (item, time) pair goes straight to schedule_post; with it enabled schedule_post is
\* called for an item only after the gate returned true for it, and an error raised
\* inside the gate counts as a rejection and does not abort the cycle.
C25_ApprovalGate == []C25_GateBeforeSchedulePost /\ [][C25_GateStep]_vars

\* C25 witness: with human_review enabled an item was approved and passed to
\* schedule_post, the gate raised for the next one, and schedule_posts came to its end
C25_Witness ==
    /\ human_review
    /\ cyc.gate_raised
    /\ cyc.called # {}
    /\ cyc.saved /\ pc = "idle"


----------------------------------------------------------------------------
(* stop() and the worker, with the worker thread scheduled fairly: a thread that can  *)
(* take its next step (test the flag, return from a job, go to sleep, wake up) takes *)
(* it in the end                                                                     *)

WorkerFairness ==
    \A w \in 1 .. MaxCalls :
        /\ WF_vars(w \in Workers /\ LoopTest(w))
        /\ WF_vars(w \in Workers /\ JobEnd(w))
        /\ WF_vars(w \in Workers /\ Sleep(w))
        /\ WF_vars(w \in Workers /\ Wake(w))

SpecRunnerFair == Init /\ [][NextRunner]_vars /\ WorkerFairness

\* the step belongs to a stop() call
StopStep ==
    \/ caller = "idle" /\ calls' = calls + 1 /\ last_call'.op = "stop"
    \/ caller = "stop_join" /\ caller' = "idle"

C26_StopFrame ==
    /\ StopStep => UNCHANGED <<pool_file, last_trend_scan, last_content_creation>>
    /\ (StopStep /\ caller = "idle" /\ ~running) =>
          UNCHANGED <<running, jobs, scheduler_thread, threads, caller, orchVars>>
    /\ (~running /\ running') => (last_call'.op = "start" /\ calls' = calls + 1)

C26_WorkerLeaves ==
    (~running /\ \E w \in Workers : Alive(w))
        ~> (running \/ \A w \in Workers : ~Alive(w))

C30_TriggersRegisteredOnce ==
    /\ jobs.daily <= 1
    /\ jobs.scan <= Cardinality(ScanHours)


----------------------------------------------------------------------------
(* Orchestrator.schedule_posts: the times of the scheduled posts *)

\* C28: over any sequence of cycle invocations, no two successfully scheduled posts of
\* the same platform have the same scheduled time, and any two of them are at least
\* the scheduling step's minimum gap (3 hours) apart, also across cycles.
C28_ScheduledPostsSpaced ==
    \A r, q \in scheduled_posts :
        (r # q /\ r.platform = q.platform) =>
            \/ r.scheduled_time - q.scheduled_time >= MinHoursBetween * Hour
            \/ q.scheduled_time - r.scheduled_time >= MinHoursBetween * Hour


----------------------------------------------------------------------------
(* The handlers, with invocations during which the pool file cannot be read *)

NextUnreadable == Next \/ RunDailyCycleUnreadable

SpecUnreadable == Init /\ [][NextUnreadable]_vars

\* C29: the persisted content pool is append-only with respect to items: over any
\* sequence of create_content and schedule_posts invocations, also ones in which
\* loading the pool file fails, an item once saved in the pool is present (same id,
\* same platform) in every later persisted pool.
C29_PoolAppendOnly ==
    [][\A p \in PlatformSet : \A i \in 1 .. Len(pool_file[p]) :
          \E j \in 1 .. Len(pool_file'[p]) : pool_file'[p][j].id = pool_file[p][i].id]_vars


----------------------------------------------------------------------------
(* TextGenerator.generate_text (src/agents/content_creator/text_generator.py,       *)
(* lines 57-122): the retry loop around the API call                                *)

MaxRetriesTried == 3    \* generators with max_retries in 0..MaxRetriesTried

\* what one openai.ChatCompletion.create call (and reading its response) does
ApiOutcomes == {"ok", "rate_limit", "api_error", "other_error"}

\* lines 108-118: RateLimitError and APIError are retried
Retryable_Any(outcome) == outcome # "ok"

Retryable(outcome) == outcome \in {"rate_limit", "api_error"}

\* line 83: while retries <= self.max_retries
LoopContinues(retries, limit) == retries <= limit

RECURSIVE Pow2(_)
Pow2(n) == IF n <= 0 THEN 1 ELSE 2 * Pow2(n - 1)

\* a generator with its max_retries and API key, and generate_text just called
InitGenerator ==
    /\ OrchInit /\ PlannerIdle /\ ~human_review
    /\ NoRestart /\ RunnerInit /\ DispatcherIdle /\ ScannerIdle /\ RelIdle /\ RtIdle
    /\ \E limit \in 0 .. MaxRetriesTried, has_key \in BOOLEAN :
          tg = [max_retries |-> limit, has_key |-> has_key, retries |-> 0,
                outcomes |-> <<>>, slept |-> 0, status |-> "called"]

\* lines 73-80: without an API key a ValueError is raised; else the loop is entered
GenerateTextBegin ==
    /\ tg.status = "called"
    /\ tg' = [tg EXCEPT !.status = IF tg.has_key THEN "loop" ELSE "raised_no_key"]
    /\ UNCHANGED exceptTg

\* lines 83-120: one round of the loop: the API call, and what follows from it
ApiCall ==
    /\ tg.status = "loop"
    /\ LoopContinues(tg.retries, tg.max_retries)
    /\ \E outcome \in ApiOutcomes :
          tg' = IF outcome = "ok"
                THEN [tg EXCEPT !.outcomes = Append(@, outcome), !.status = "returned"]
                ELSE IF Retryable(outcome)
                THEN [tg EXCEPT !.outcomes = Append(@, outcome),
                                !.retries = @ + 1,
                                !.slept = @ + Pow2(tg.retries + 1)]
                ELSE [tg EXCEPT !.outcomes = Append(@, outcome), !.status = "raised_other"]
    /\ UNCHANGED exceptTg

\* line 122: the loop is left, "Failed to generate text after ... retries" is raised
RetriesExhaustedRaise ==
    /\ tg.status = "loop"
    /\ ~LoopContinues(tg.retries, tg.max_retries)
    /\ tg' = [tg EXCEPT !.status = "raised_exhausted"]
    /\ UNCHANGED exceptTg

GeneratorNext == GenerateTextBegin \/ ApiCall \/ RetriesExhaustedRaise

\* the call goes on: an API call made returns, a sleep ends
SpecGenerator == InitGenerator /\ [][GeneratorNext]_vars /\ WF_vars(GeneratorNext)

TgEnded == tg.status \in {"returned", "raised_other", "raised_exhausted", "raised_no_key"}

C27_BoundedRetries ==
    /\ Len(tg.outcomes) <= tg.max_retries + 1
    /\ tg.retries <= tg.max_retries + 1
    /\ tg.retries = Cardinality({i \in 1 .. Len(tg.outcomes) :
                                    tg.outcomes[i] \in {"rate_limit", "api_error"}})
    \* a further call is made only after a rate-limit or API error
    /\ \A i \in 1 .. Len(tg.outcomes) - 1 : tg.outcomes[i] \in {"rate_limit", "api_error"}
    /\ (tg.outcomes # <<>> /\ tg.outcomes[Len(tg.outcomes)] = "ok") <=> tg.status = "returned"
    /\ (tg.outcomes # <<>> /\ tg.outcomes[Len(tg.outcomes)] = "other_error")
          <=> tg.status = "raised_other"
    /\ tg.status = "raised_exhausted" =>
          /\ Len(tg.outcomes) = tg.max_retries + 1
          /\ tg.retries = tg.max_retries + 1
    /\ (tg.status = "loop" /\ tg.retries > tg.max_retries) => ENABLED RetriesExhaustedRaise

\* C27: generate_text always terminates: it makes at most max_retries + 1 API calls,
\* retries only after a rate-limit or API error, raises at once on any other error,
\* returns on the first successful call, and raises once the retries are exhausted.
C27_GenerateTextTerminates == <>TgEnded /\ []C27_BoundedRetries

\* C27 witness: with max_retries = 3 the API was called four times, a rate-limit and an
\* API error among the failures, and the failure was raised
C27_Witness ==
    /\ tg.status = "raised_exhausted"
    /\ tg.max_retries = 3
    /\ Len(tg.outcomes) = 4
    /\ \E i, j \in 1 .. 4 : tg.outcomes[i] = "rate_limit" /\ tg.outcomes[j] = "api_error"


====
